---- MODULE Spec2Model ----
(***************************************************************************)
(* Procedure builder, executor and HTTP handler of @gremlincms/core.       *)
(*                                                                         *)
(*   router/builder.ts   createBuilderInternal, procedure                  *)
(*   executor.ts         executeProcedure, resolveResult,                  *)
(*                       mergeMiddlewareContext, loadEffectRuntime         *)
(*   handler.ts          createHttpHandler and its helpers                 *)
(*   errors.ts           GremlinError                                      *)
(*                                                                         *)
(* JavaScript values are tagged records; strings that the code inspects    *)
(* character by character (paths) are sequences of one-character strings.  *)
(***************************************************************************)
EXTENDS Integers, Sequences, FiniteSets, TLC

VARIABLES
    heap,                \* builder objects allocated so far (SpecBuilder)
    built,               \* the Procedure returned by the last handler() call
    config,              \* the GremlinConfig given to createHttpHandler
    basePath,            \* closure variable of createHttpHandler
    router,              \* closure variable of createHttpHandler
    effectRuntimePromise,\* module-level cache of executor.ts
    reqs,                \* one record per invocation of the request function
    composed,            \* the running call of a composeMiddleware(...) function
    adapter              \* a ContentResourceAdapter: its rows and its last page

vars == <<heap, built, config, basePath, router, effectRuntimePromise, reqs,
          composed, adapter>>

(***************************************************************************)
(* Bounds of the model.                                                    *)
(***************************************************************************)
MaxUses == 2        \* longest chain of use() calls / longest middlewares array
MaxBuilders == 4    \* builder objects allocated in SpecBuilder
MaxValue == 1       \* numeric inputs are 1..MaxValue

(***************************************************************************)
(* JavaScript values.                                                      *)
(***************************************************************************)
Undefined == [t |-> "undefined"]
Null == [t |-> "null"]
NaN == [t |-> "NaN"]
Num(n) == [t |-> "number", n |-> n]
Str(s) == [t |-> "string", s |-> s]
Obj(f) == [t |-> "object", f |-> f]
Bool(b) == [t |-> "boolean", b |-> b]
Fn(name) == [t |-> "function", name |-> name]

\* typeof value === "object" (null included, as in JavaScript)
TypeofObject(value) == value.t \in {"object", "null"}

\* the marker for an absent function / schema slot
NoValue == "undefined"

\* `obj.key` for an object whose slots hold identifiers
Prop(obj, key) == IF key \in DOMAIN obj THEN obj[key] ELSE NoValue

\* `{ ...obj, [key]: value }`
Spread(obj, key, value) ==
    [k \in DOMAIN obj \cup {key} |-> IF k = key THEN value ELSE obj[k]]

(***************************************************************************)
(* errors.ts                                                               *)
(***************************************************************************)
GremlinErrorCodes ==
    {"NOT_FOUND", "UNAUTHORIZED", "FORBIDDEN", "VALIDATION", "CONFLICT", "INTERNAL"}

GremlinError(code, message, cause) ==
    [t |-> "GremlinError", code |-> code, message |-> message, cause |-> cause]

\* any thrown value that is not an instance of GremlinError
ForeignError(name) == [t |-> "Error", name |-> name]

IsGremlinError(error) == error.t = "GremlinError"

(***************************************************************************)
(* router/builder.ts.  A builder object is a closure over _def; `calls` is *)
(* a history variable: the input()/use() calls of the chain that made it.  *)
(***************************************************************************)
Schemas == {"valueSchema", "stringSchema"}
Middlewares == {"m1", "m2"}
Handlers == {"double", "echo", "fail"}

createBuilderInternal(_def, calls) == [_def |-> _def, calls |-> calls]

\* the exported `procedure`: createBuilderInternal() with _def = {}
procedure == createBuilderInternal(<<>>, <<>>)

\* builder.input(schema): a new builder over { ..._def, input: schema }
builder_input(h, b, schema) ==
    Append(h, createBuilderInternal(
                  Spread(h[b]._def, "input", schema),
                  Append(h[b].calls, [op |-> "input", arg |-> schema])))

\* a variant in which use() also writes the step into the receiver's _def
builder_use_shared(h, b, middleware) ==
    Append([h EXCEPT ![b]._def = Spread(h[b]._def, "middleware", middleware)],
           createBuilderInternal(
               Spread(h[b]._def, "middleware", middleware),
               Append(h[b].calls, [op |-> "use", arg |-> middleware])))

\* builder.use(middleware): a new builder over { ..._def, middleware }
builder_use(h, b, middleware) ==
    Append(h, createBuilderInternal(
                  Spread(h[b]._def, "middleware", middleware),
                  Append(h[b].calls, [op |-> "use", arg |-> middleware])))

\* builder.handler(handlerFn): the built Procedure
builder_handler(h, b, handlerFn) ==
    [_def |-> [input |-> Prop(h[b]._def, "input"),
               output |-> NoValue,
               middleware |-> Prop(h[b]._def, "middleware"),
               handler |-> handlerFn],
     calls |-> h[b].calls,
     origin |-> "builder"]

\* the arguments of the use() calls of a chain, in call order
RECURSIVE UsesOf(_)
UsesOf(calls) ==
    IF calls = <<>> THEN <<>>
    ELSE IF calls[Len(calls)].op = "use"
         THEN Append(UsesOf(SubSeq(calls, 1, Len(calls) - 1)), calls[Len(calls)].arg)
         ELSE UsesOf(SubSeq(calls, 1, Len(calls) - 1))

InitBuilder ==
    /\ heap = <<procedure>>
    /\ built = Undefined
    /\ config = Undefined
    /\ basePath = <<>>
    /\ router = <<>>
    /\ effectRuntimePromise = "null"
    /\ reqs = <<>>
    /\ composed = Undefined
    /\ adapter = Undefined

CallInput(b, schema) ==
    /\ Len(heap) < MaxBuilders
    /\ heap' = builder_input(heap, b, schema)
    /\ UNCHANGED <<built, config, basePath, router, effectRuntimePromise, reqs, composed, adapter>>

CallUse(b, middleware) ==
    /\ Len(heap) < MaxBuilders
    /\ Len(UsesOf(heap[b].calls)) < MaxUses
    /\ heap' = builder_use(heap, b, middleware)
    /\ UNCHANGED <<built, config, basePath, router, effectRuntimePromise, reqs, composed, adapter>>

CallHandler(b, handlerFn) ==
    /\ built' = builder_handler(heap, b, handlerFn)
    /\ UNCHANGED <<heap, config, basePath, router, effectRuntimePromise, reqs, composed, adapter>>

NextBuilder ==
    \/ \E b \in 1..Len(heap), schema \in Schemas : CallInput(b, schema)
    \/ \E b \in 1..Len(heap), middleware \in Middlewares : CallUse(b, middleware)
    \/ \E b \in 1..Len(heap), handlerFn \in Handlers : CallHandler(b, handlerFn)

SpecBuilder == InitBuilder /\ [][NextBuilder]_vars


(***************************************************************************)
(* router/types.ts: a Procedure value as the Procedure interface declares  *)
(* it, with the ordered `middlewares` array the executor iterates.         *)
(***************************************************************************)
RECURSIVE SeqsUpTo(_, _)
SeqsUpTo(S, n) ==
    IF n = 0 THEN {<<>>}
    ELSE LET shorter == SeqsUpTo(S, n - 1)
         IN  shorter \cup {Append(q, x) : q \in {p \in shorter : Len(p) = n - 1}, x \in S}

RECURSIVE UseCalls(_)
UseCalls(middlewares) ==
    IF middlewares = <<>> THEN <<>>
    ELSE Append(UseCalls(SubSeq(middlewares, 1, Len(middlewares) - 1)),
                [op |-> "use", arg |-> middlewares[Len(middlewares)]])

Procedure(inputSchema, middlewares, handlerFn) ==
    [_def |-> [input |-> inputSchema,
               output |-> NoValue,
               middlewares |-> middlewares,
               handler |-> handlerFn],
     calls |-> UseCalls(middlewares),
     origin |-> "literal"]

(***************************************************************************)
(* Strings the handler inspects: sequences of one-character strings.       *)
(***************************************************************************)
StartsWith(s, prefix) ==
    /\ Len(s) >= Len(prefix)
    /\ SubSeq(s, 1, Len(prefix)) = prefix

\* path.replace(/\/+$/, "")
RECURSIVE StripTrailingSlashes(_)
StripTrailingSlashes(path) ==
    IF path # <<>> /\ path[Len(path)] = "/"
    THEN StripTrailingSlashes(SubSeq(path, 1, Len(path) - 1))
    ELSE path

SESSION_PATH == <<"/", "s", "e", "s", "s", "i", "o", "n">>
RPC_PATH == <<"/", "r", "p", "c">>

(***************************************************************************)
(* handler.ts                                                              *)
(***************************************************************************)
DEFAULT_BASE_PATH == <<"/", "a", "p", "i", "/", "g", "r", "e", "m", "l", "i", "n">>

\* config.basePath omitted
NoBasePath == <<"undefined">>
\* the null of resolveRelativePath
NullPath == <<"null">>

ERROR_STATUS_MAP ==
    [NOT_FOUND |-> 404, UNAUTHORIZED |-> 401, FORBIDDEN |-> 403,
     VALIDATION |-> 400, CONFLICT |-> 409, INTERNAL |-> 500]

normalizePath(path) ==
    IF Len(path) <= 1 THEN path
    ELSE IF path[Len(path)] = "/" THEN StripTrailingSlashes(path) ELSE path

\* a variant that keeps the configured string as it is
normalizeBasePath_verbatim(bp) ==
    IF StartsWith(bp, <<"/">>) THEN bp ELSE <<"/">> \o bp

normalizeBasePath(bp) ==
    LET withLeadingSlash == IF StartsWith(bp, <<"/">>) THEN bp ELSE <<"/">> \o bp
    IN  normalizePath(withLeadingSlash)

\* a variant that hands back the whole path where the code answers null
resolveRelativePath_lenient(pathname, bp) ==
    LET normalizedPath == normalizePath(pathname)
        normalizedBasePath == normalizePath(bp)
    IN  IF normalizedPath = normalizedBasePath THEN <<"/">>
        ELSE IF StartsWith(normalizedPath, normalizedBasePath \o <<"/">>)
             THEN SubSeq(normalizedPath, Len(normalizedBasePath) + 1, Len(normalizedPath))
             ELSE normalizedPath

resolveRelativePath(pathname, bp) ==
    LET normalizedPath == normalizePath(pathname)
        normalizedBasePath == normalizePath(bp)
    IN  IF normalizedPath = normalizedBasePath THEN <<"/">>
        ELSE IF StartsWith(normalizedPath, normalizedBasePath \o <<"/">>)
             THEN SubSeq(normalizedPath, Len(normalizedBasePath) + 1, Len(normalizedPath))
             ELSE NullPath

\* JSON.stringify followed by the client's JSON.parse: NaN becomes null and
\* properties holding undefined are dropped; undefined itself gives no body
RECURSIVE ToJSON(_)
ToJSON(value) ==
    CASE value.t = "NaN" -> Null
      [] value.t = "object" ->
            Obj([k \in {j \in DOMAIN value.f : value.f[j].t # "undefined"} |->
                     ToJSON(value.f[k])])
      [] OTHER -> value

jsonResponse(body, status) ==
    [status |-> status,
     contentType |-> "application/json; charset=utf-8",
     body |-> ToJSON(body)]

\* a variant that answers 500 for every code
errorStatus_always500(error) == 500

errorStatus(error) ==
    IF error.code \in DOMAIN ERROR_STATUS_MAP THEN ERROR_STATUS_MAP[error.code] ELSE 500

\* a variant that copies the thrown value's name into the message
normalizeError_leaky(error) ==
    IF IsGremlinError(error) THEN error
    ELSE GremlinError("INTERNAL", [text |-> error.name], error)

normalizeError(error) ==
    IF IsGremlinError(error) THEN error
    ELSE GremlinError("INTERNAL", [text |-> "Internal server error."], error)

\* the body of a request: text that is not JSON, or the JSON value it holds
InvalidJson == [t |-> "invalid"]

\* a variant that lets an empty procedure name through
parseRpcRequestBody_lax(body) ==
    IF body = InvalidJson
    THEN [ok |-> FALSE,
          error |-> GremlinError("VALIDATION",
                                 [text |-> "Request body must be valid JSON."],
                                 ForeignError("SyntaxError"))]
    ELSE IF body.t # "object"
    THEN [ok |-> FALSE,
          error |-> GremlinError("VALIDATION",
                                 [text |-> "RPC body must be an object."], Undefined)]
    ELSE IF \/ "procedure" \notin DOMAIN body.f
            \/ body.f.procedure.t # "string"
    THEN [ok |-> FALSE,
          error |-> GremlinError("VALIDATION",
                                 [text |-> "RPC body must include a procedure."], Undefined)]
    ELSE [ok |-> TRUE,
          procedure |-> body.f.procedure.s,
          input |-> IF "input" \in DOMAIN body.f THEN body.f.input ELSE Undefined]

\* parseRpcRequestBody: [ok |-> TRUE, procedure, input] or [ok |-> FALSE, error]
parseRpcRequestBody(body) ==
    IF body = InvalidJson
    THEN [ok |-> FALSE,
          error |-> GremlinError("VALIDATION",
                                 [text |-> "Request body must be valid JSON."],
                                 ForeignError("SyntaxError"))]
    ELSE IF body.t # "object"
    THEN [ok |-> FALSE,
          error |-> GremlinError("VALIDATION",
                                 [text |-> "RPC body must be an object."], Undefined)]
    ELSE IF \/ "procedure" \notin DOMAIN body.f
            \/ body.f.procedure.t # "string"
            \/ body.f.procedure.s = ""
    THEN [ok |-> FALSE,
          error |-> GremlinError("VALIDATION",
                                 [text |-> "RPC body must include a procedure."], Undefined)]
    ELSE [ok |-> TRUE,
          procedure |-> body.f.procedure.s,
          input |-> IF "input" \in DOMAIN body.f THEN body.f.input ELSE Undefined]

\* property names every object literal inherits from Object.prototype
ObjectPrototypeKeys == {"constructor", "toString"}

\* router[procedureName] on the plain object `config.router ?? {}`
RouterLookup(table, procedureName) ==
    IF procedureName \in DOMAIN table THEN table[procedureName]
    ELSE IF procedureName \in ObjectPrototypeKeys
         THEN [inherited |-> procedureName]
         ELSE Undefined

(***************************************************************************)
(* executor.ts                                                             *)
(***************************************************************************)
isSafeParser(value) == value \in Schemas

\* schema.safeParse(input) of the zod schemas used with the builder:
\*   valueSchema  = z.object({ value: z.number() })  (unknown keys stripped)
\*   stringSchema = z.string()
safeParse(schema, input) ==
    IF schema = "valueSchema"
    THEN IF /\ input.t = "object"
            /\ "value" \in DOMAIN input.f
            /\ input.f.value.t = "number"
         THEN [success |-> TRUE, data |-> Obj([value |-> input.f.value])]
         ELSE [success |-> FALSE, error |-> ForeignError("ZodError")]
    ELSE IF input.t = "string"
         THEN [success |-> TRUE, data |-> input]
         ELSE [success |-> FALSE, error |-> ForeignError("ZodError")]

\* results a middleware or handler can hand back
PromiseOf(settle, value) == [t |-> "promise", settle |-> settle, value |-> value]
EffectOf(settle, value) == [t |-> "effect", settle |-> settle, value |-> value]

isPromiseLike(value) == value.t = "promise"

\* a variant that wraps the reason of a rejected promise in an INTERNAL error
resolveResult_wrapping(runtime, result) ==
    IF runtime = "runtime" /\ result.t = "effect"
    THEN IF result.settle = "resolve"
         THEN [ok |-> TRUE, value |-> result.value]
         ELSE [ok |-> FALSE, error |-> ForeignError("FiberFailure")]
    ELSE IF isPromiseLike(result)
    THEN IF result.settle = "resolve"
         THEN [ok |-> TRUE, value |-> result.value]
         ELSE [ok |-> FALSE,
               error |-> GremlinError("INTERNAL", [text |-> "Procedure failed."],
                                      result.value)]
    ELSE [ok |-> TRUE, value |-> result]

\* a variant that hands a promise back without awaiting it
resolveResult_unawaited(runtime, result) ==
    IF runtime = "runtime" /\ result.t = "effect"
    THEN IF result.settle = "resolve"
         THEN [ok |-> TRUE, value |-> result.value]
         ELSE [ok |-> FALSE, error |-> ForeignError("FiberFailure")]
    ELSE [ok |-> TRUE, value |-> result]

\* a variant that cannot do without the Effect runtime
resolveResult_needsRuntime(runtime, result) ==
    IF runtime = "none" THEN [ok |-> FALSE, error |-> ForeignError("TypeError")]
    ELSE IF result.t = "effect"
    THEN IF result.settle = "resolve"
         THEN [ok |-> TRUE, value |-> result.value]
         ELSE [ok |-> FALSE, error |-> ForeignError("FiberFailure")]
    ELSE IF isPromiseLike(result)
    THEN IF result.settle = "resolve"
         THEN [ok |-> TRUE, value |-> result.value]
         ELSE [ok |-> FALSE, error |-> result.value]
    ELSE [ok |-> TRUE, value |-> result]

\* a variant that turns a rejected promise into undefined
resolveResult_swallowing(runtime, result) ==
    IF runtime = "runtime" /\ result.t = "effect"
    THEN IF result.settle = "resolve"
         THEN [ok |-> TRUE, value |-> result.value]
         ELSE [ok |-> FALSE, error |-> ForeignError("FiberFailure")]
    ELSE IF isPromiseLike(result)
    THEN IF result.settle = "resolve"
         THEN [ok |-> TRUE, value |-> result.value]
         ELSE [ok |-> TRUE, value |-> Undefined]
    ELSE [ok |-> TRUE, value |-> result]

\* resolveResult once loadEffectRuntime() has answered `runtime`
resolveResult(runtime, result) ==
    IF runtime = "runtime" /\ result.t = "effect"
    THEN IF result.settle = "resolve"
         THEN [ok |-> TRUE, value |-> result.value]
         ELSE [ok |-> FALSE, error |-> ForeignError("FiberFailure")]
    ELSE IF isPromiseLike(result)
    THEN IF result.settle = "resolve"
         THEN [ok |-> TRUE, value |-> result.value]
         ELSE [ok |-> FALSE, error |-> result.value]
    ELSE [ok |-> TRUE, value |-> result]

\* a variant that skips a fragment that is not an object
mergeMiddlewareContext_ignoring(currentContext, middlewareContext) ==
    IF ~TypeofObject(middlewareContext) \/ middlewareContext = Null
    THEN [ok |-> TRUE, value |-> currentContext]
    ELSE [ok |-> TRUE,
          value |-> [k \in DOMAIN currentContext \cup DOMAIN middlewareContext.f |->
                        IF k \in DOMAIN middlewareContext.f
                        THEN middlewareContext.f[k]
                        ELSE currentContext[k]]]

\* mergeMiddlewareContext: [ok |-> TRUE, value] or [ok |-> FALSE, error]
mergeMiddlewareContext(currentContext, middlewareContext) ==
    IF middlewareContext = Undefined \/ middlewareContext = Null
    THEN [ok |-> TRUE, value |-> currentContext]
    ELSE IF ~TypeofObject(middlewareContext)
    THEN [ok |-> FALSE,
          error |-> GremlinError("INTERNAL",
                                 [text |-> "Middleware must return an object context."],
                                 middlewareContext)]
    ELSE [ok |-> TRUE,
          value |-> [k \in DOMAIN currentContext \cup DOMAIN middlewareContext.f |->
                        IF k \in DOMAIN middlewareContext.f
                        THEN middlewareContext.f[k]
                        ELSE currentContext[k]]]


(***************************************************************************)
(* What the collaborators can do when called.                              *)
(***************************************************************************)
\* a string built from a template: the literal part and the interpolated part
Text(message) == [t |-> "string", text |-> message]

UserSession == Obj([user |-> Obj([id |-> Str("user_123")]), expires |-> Str("2099-01-01")])
AnonSession == Obj([user |-> Null, expires |-> Str("2099-01-01")])

\* auth.getSession(request): the promise it returns
SessionOutcomes ==
    {PromiseOf("resolve", UserSession), PromiseOf("resolve", AnonSession),
     PromiseOf("reject", GremlinError("UNAUTHORIZED", [text |-> "Session required."], Undefined)),
     PromiseOf("reject", ForeignError("Error"))}

\* values a middleware resolves to
MiddlewareValues ==
    {Obj([v |-> Num(1)]), Obj([v |-> Num(2)]), Obj([session |-> Str("forged")]),
     Undefined, Null, Num(7), Str("ctx"), Bool(TRUE), Fn("next")}

ThrownByMiddleware ==
    {GremlinError("FORBIDDEN", [text |-> "No access."], Undefined), ForeignError("Error")}

\* what a call middleware({ input }) does: throw, or return a plain value, a
\* promise or an Effect
MiddlewareOutcomes ==
    {[kind |-> "return", result |-> v] : v \in MiddlewareValues}
    \cup {[kind |-> "return", result |-> PromiseOf("resolve", v)] : v \in MiddlewareValues}
    \cup {[kind |-> "return", result |-> EffectOf("resolve", v)] : v \in MiddlewareValues}
    \cup {[kind |-> "return", result |-> PromiseOf("reject", e)] : e \in ThrownByMiddleware}
    \cup {[kind |-> "return", result |-> EffectOf("reject", e)] : e \in ThrownByMiddleware}
    \cup {[kind |-> "throw", error |-> e] : e \in ThrownByMiddleware}

ThrownByHandler ==
    {GremlinError(code, [text |-> "failure: ", code |-> code], Undefined) :
         code \in GremlinErrorCodes}
    \cup {ForeignError("Error")}

\* ({ input }) => ({ doubled: input.value * 2 })
DoubleOf(input) ==
    IF input.t \in {"undefined", "null"}
    THEN [kind |-> "throw", error |-> ForeignError("TypeError")]
    ELSE IF input.t = "object" /\ "value" \in DOMAIN input.f /\ input.f.value.t = "number"
    THEN [kind |-> "return", result |-> Obj([doubled |-> Num(input.f.value.n * 2)])]
    ELSE [kind |-> "return", result |-> Obj([doubled |-> NaN])]

\* ({ input, ctx }) => ({ input, v: ctx.v, session: ctx.session })
EchoOf(input, ctx) ==
    Obj([input |-> input,
         v |-> IF "v" \in DOMAIN ctx THEN ctx.v ELSE Undefined,
         session |-> ctx.session])

\* what a call handler({ input, ctx }) does, per handler function
HandlerOutcomes(handlerFn, input, ctx) ==
    CASE handlerFn = "double" -> {DoubleOf(input)}
      [] handlerFn = "echo" ->
            {[kind |-> "return", result |-> EchoOf(input, ctx)],
             [kind |-> "return", result |-> PromiseOf("resolve", EchoOf(input, ctx))],
             [kind |-> "return", result |-> EffectOf("resolve", EchoOf(input, ctx))]}
      [] OTHER ->
            {[kind |-> "throw", error |-> e] : e \in ThrownByHandler}
            \cup {[kind |-> "return", result |-> PromiseOf("reject", e)] : e \in ThrownByHandler}
            \cup {[kind |-> "return", result |-> EffectOf("reject", e)] : e \in ThrownByHandler}

(***************************************************************************)
(* One invocation of the function createHttpHandler returns.               *)
(***************************************************************************)
IdleRequest ==
    [pc |-> "idle", method |-> "", pathname |-> <<>>, body |-> Undefined,
     procedureName |-> "", procedure |-> Undefined, input |-> Undefined,
     validatedInput |-> Undefined, session |-> Undefined, mergedContext |-> <<>>,
     i |-> 0, pending |-> Undefined, log |-> <<>>, caught |-> Undefined,
     outcome |-> "none", response |-> Undefined]

Logged(req, event) == [req EXCEPT !.log = Append(@, event)]

\* a variant of the catch block that never calls callbacks.onError
Caught_silent(req, error) ==
    LET gremlinError == normalizeError(error)
        seen == [req EXCEPT !.caught = error]
    IN  [seen EXCEPT
            !.pc = "done",
            !.outcome = "response",
            !.response = jsonResponse(
                Obj([error |-> Obj([code |-> Str(gremlinError.code),
                                    message |-> Text(gremlinError.message)])]),
                errorStatus(gremlinError))]

\* the catch block: normalizeError, callbacks.onError, the error response
Caught(req, error) ==
    LET gremlinError == normalizeError(error)
        seen == [req EXCEPT !.caught = error]
        reported == IF config.onError = "absent" THEN seen
                    ELSE Logged(seen, [e |-> "onError", error |-> gremlinError])
    IN  IF config.onError = "throws"
        THEN [reported EXCEPT !.pc = "done", !.outcome = "rejected",
                              !.response = ForeignError("onError")]
        ELSE [reported EXCEPT
                 !.pc = "done",
                 !.outcome = "response",
                 !.response = jsonResponse(
                     Obj([error |-> Obj([code |-> Str(gremlinError.code),
                                         message |-> Text(gremlinError.message)])]),
                     errorStatus(gremlinError))]

\* a variant that wraps the payload as { data: payload }
Responded_wrapped(req, body) ==
    [req EXCEPT !.pc = "done", !.outcome = "response",
                !.response = jsonResponse(Obj([data |-> body]), 200)]

Responded(req, body) ==
    [req EXCEPT !.pc = "done", !.outcome = "response", !.response = jsonResponse(body, 200)]

\* a variant that routes /session and /rpc whatever the method
HandleRequest_anyMethod(r, method, pathname, body) ==
    /\ reqs[r].pc = "idle"
    /\ LET req == [IdleRequest EXCEPT !.method = method, !.pathname = pathname,
                                      !.body = body]
           relativePath == resolveRelativePath(pathname, basePath)
       IN  reqs' = [reqs EXCEPT ![r] =
              IF relativePath = NullPath
              THEN Caught(req, GremlinError("NOT_FOUND",
                                            [text |-> "Route not found: ", path |-> pathname],
                                            Undefined))
              ELSE IF relativePath = SESSION_PATH
              THEN [Logged(req, [e |-> "getSession"]) EXCEPT !.pc = "await_session"]
              ELSE IF relativePath = RPC_PATH
              THEN [req EXCEPT !.pc = "await_json"]
              ELSE Caught(req, GremlinError("NOT_FOUND",
                                            [text |-> "Route not found: ", method |-> method,
                                             path |-> relativePath],
                                            Undefined))]
    /\ UNCHANGED <<heap, built, config, basePath, router, effectRuntimePromise, composed, adapter>>

\* the request function is called: everything up to its first await
HandleRequest(r, method, pathname, body) ==
    /\ reqs[r].pc = "idle"
    /\ LET req == [IdleRequest EXCEPT !.method = method, !.pathname = pathname,
                                      !.body = body]
           relativePath == resolveRelativePath(pathname, basePath)
       IN  reqs' = [reqs EXCEPT ![r] =
              IF relativePath = NullPath
              THEN Caught(req, GremlinError("NOT_FOUND",
                                            [text |-> "Route not found: ", path |-> pathname],
                                            Undefined))
              ELSE IF method = "GET" /\ relativePath = SESSION_PATH
              THEN [Logged(req, [e |-> "getSession"]) EXCEPT !.pc = "await_session"]
              ELSE IF method = "POST" /\ relativePath = RPC_PATH
              THEN [req EXCEPT !.pc = "await_json"]
              ELSE Caught(req, GremlinError("NOT_FOUND",
                                            [text |-> "Route not found: ", method |-> method,
                                             path |-> relativePath],
                                            Undefined))]
    /\ UNCHANGED <<heap, built, config, basePath, router, effectRuntimePromise, composed, adapter>>

\* request.json() settles: the rest of parseRpcRequestBody, the router lookup
\* and the call of auth.getSession
BodyParsed(r) ==
    /\ reqs[r].pc = "await_json"
    /\ LET req == reqs[r]
           parsed == parseRpcRequestBody(req.body)
           found == RouterLookup(router, parsed.procedure)
       IN  reqs' = [reqs EXCEPT ![r] =
              IF ~parsed.ok THEN Caught(req, parsed.error)
              ELSE IF found = Undefined
              THEN Caught([req EXCEPT !.procedureName = parsed.procedure],
                          GremlinError("NOT_FOUND",
                                       [text |-> "Procedure not found: ",
                                        name |-> parsed.procedure],
                                       Undefined))
              ELSE [Logged(req, [e |-> "getSession"]) EXCEPT
                       !.pc = "await_rpc_session",
                       !.procedureName = parsed.procedure,
                       !.procedure = found,
                       !.input = parsed.input]]
    /\ UNCHANGED <<heap, built, config, basePath, router, effectRuntimePromise, composed, adapter>>

\* the promise of auth.getSession settles
SessionSettled(r, outcome) ==
    /\ reqs[r].pc \in {"await_session", "await_rpc_session"}
    /\ LET req == reqs[r]
       IN  reqs' = [reqs EXCEPT ![r] =
              IF outcome.settle = "reject"
              THEN Caught(Logged(req, [e |-> "sessionRejected", error |-> outcome.value]),
                          outcome.value)
              ELSE IF req.pc = "await_session"
              THEN Responded([req EXCEPT !.session = outcome.value], outcome.value)
              ELSE [req EXCEPT !.pc = "execute", !.session = outcome.value]]
    /\ UNCHANGED <<heap, built, config, basePath, router, effectRuntimePromise, composed, adapter>>


\* loadEffectRuntime(): the first call imports 'effect' and caches the answer
\* ("runtime", or "none" when the module is missing or has no Effect API)
EffectRuntimeAnswers ==
    IF effectRuntimePromise = "null" THEN {"runtime", "none"} ELSE {effectRuntimePromise}

\* an Effect value exists only where the 'effect' module can be imported
Constructible(result) == result.t = "effect" => effectRuntimePromise # "none"

\* a variant that never runs the schema
validateInput_unchecked(_def, input) == [ok |-> TRUE, ran |-> FALSE, value |-> input]

\* a variant that runs the schema and passes the raw input on
validateInput_raw(_def, input) ==
    IF _def.input = NoValue THEN [ok |-> TRUE, ran |-> FALSE, value |-> input]
    ELSE IF ~isSafeParser(_def.input)
    THEN [ok |-> FALSE, ran |-> FALSE,
          error |-> GremlinError("INTERNAL",
                                 [text |-> "Procedure input schema must provide safeParse."],
                                 Undefined)]
    ELSE LET parseResult == safeParse(_def.input, input)
         IN  IF ~parseResult.success
             THEN [ok |-> FALSE, ran |-> TRUE,
                   error |-> GremlinError("VALIDATION",
                                          [text |-> "Input validation failed."],
                                          parseResult.error)]
             ELSE [ok |-> TRUE, ran |-> TRUE, value |-> input]

\* a variant that demands an input even where there is no schema
validateInput_strict(_def, input) ==
    IF _def.input = NoValue
    THEN IF input = Undefined
         THEN [ok |-> FALSE, ran |-> FALSE,
               error |-> GremlinError("VALIDATION",
                                      [text |-> "Input validation failed."], Undefined)]
         ELSE [ok |-> TRUE, ran |-> FALSE, value |-> input]
    ELSE IF ~isSafeParser(_def.input)
    THEN [ok |-> FALSE, ran |-> FALSE,
          error |-> GremlinError("INTERNAL",
                                 [text |-> "Procedure input schema must provide safeParse."],
                                 Undefined)]
    ELSE LET parseResult == safeParse(_def.input, input)
         IN  IF ~parseResult.success
             THEN [ok |-> FALSE, ran |-> TRUE,
                   error |-> GremlinError("VALIDATION",
                                          [text |-> "Input validation failed."],
                                          parseResult.error)]
             ELSE [ok |-> TRUE, ran |-> TRUE, value |-> parseResult.data]

\* the validation block of executeProcedure:
\* [ok |-> TRUE, ran, value] or [ok |-> FALSE, ran, error]
validateInput(_def, input) ==
    IF _def.input = NoValue THEN [ok |-> TRUE, ran |-> FALSE, value |-> input]
    ELSE IF ~isSafeParser(_def.input)
    THEN [ok |-> FALSE, ran |-> FALSE,
          error |-> GremlinError("INTERNAL",
                                 [text |-> "Procedure input schema must provide safeParse."],
                                 Undefined)]
    ELSE LET parseResult == safeParse(_def.input, input)
         IN  IF ~parseResult.success
             THEN [ok |-> FALSE, ran |-> TRUE,
                   error |-> GremlinError("VALIDATION",
                                          [text |-> "Input validation failed."],
                                          parseResult.error)]
             ELSE [ok |-> TRUE, ran |-> TRUE, value |-> parseResult.data]

\* a variant that seeds the context from one module-level slot, written by
\* the first invocation
SeedContext_shared(req, r) ==
    [request |-> [t |-> "Request", method |-> reqs[1].method, pathname |-> reqs[1].pathname],
     session |-> reqs[1].session,
     headers |-> [t |-> "Headers", of |-> 1]]

\* the ExecutionContext the handler passes, as the seed of mergedContext
SeedContext(req, r) ==
    [request |-> [t |-> "Request", method |-> req.method, pathname |-> req.pathname],
     session |-> req.session,
     headers |-> [t |-> "Headers", of |-> r]]

\* a variant that leaves the loop one element early
LoopDone_early(req) == req.i >= Len(req.procedure._def.middlewares)

\* the for-of loop over procedure._def.middlewares has no element left
LoopDone(req) == req.i > Len(req.procedure._def.middlewares)

\* executeProcedure is entered: input validation, the seed context, and the
\* start of `for (const middleware of procedure._def.middlewares)`
Validate(r) ==
    /\ reqs[r].pc = "execute"
    /\ LET req == reqs[r]
           checked == validateInput(req.procedure._def, req.input)
           validated == IF checked.ran
                        THEN Logged(req, [e |-> "validate", success |-> checked.ok])
                        ELSE req
       IN  reqs' = [reqs EXCEPT ![r] =
              IF "_def" \notin DOMAIN req.procedure
              THEN Caught(req, ForeignError("TypeError"))
              ELSE IF ~checked.ok THEN Caught(validated, checked.error)
              ELSE IF "middlewares" \notin DOMAIN req.procedure._def
              THEN Caught(validated, ForeignError("TypeError"))
              ELSE [validated EXCEPT !.pc = "loop", !.validatedInput = checked.value,
                                     !.mergedContext = SeedContext(req, r), !.i = 1]]
    /\ UNCHANGED <<heap, built, config, basePath, router, effectRuntimePromise, composed, adapter>>

\* one iteration of the loop begins: middleware({ input: validatedInput })
InvokeMiddleware(r, outcome) ==
    /\ reqs[r].pc = "loop"
    /\ ~LoopDone(reqs[r])
    /\ outcome.kind = "return" => Constructible(outcome.result)
    /\ LET req == reqs[r]
           called == Logged(req, [e |-> "middleware", i |-> req.i,
                                  fn |-> req.procedure._def.middlewares[req.i],
                                  input |-> req.validatedInput])
       IN  reqs' = [reqs EXCEPT ![r] =
              IF outcome.kind = "throw"
              THEN Caught(Logged(called, [e |-> "threw", error |-> outcome.error]),
                          outcome.error)
              ELSE [called EXCEPT !.pc = "await_middleware", !.pending = outcome.result]]
    /\ UNCHANGED <<heap, built, config, basePath, router, effectRuntimePromise, composed, adapter>>

\* `await resolveResult(middlewareResult)` completes, then mergeMiddlewareContext
MiddlewareSettled(r, runtime) ==
    /\ reqs[r].pc = "await_middleware"
    /\ runtime \in EffectRuntimeAnswers
    /\ reqs[r].pending.t = "effect" => runtime = "runtime"
    /\ effectRuntimePromise' = runtime
    /\ LET req == reqs[r]
           resolved == resolveResult(runtime, req.pending)
           merged == mergeMiddlewareContext(req.mergedContext, resolved.value)
           settled == Logged([req EXCEPT !.pending = Undefined],
                             [e |-> "resolved", i |-> req.i, settled |-> resolved])
       IN  reqs' = [reqs EXCEPT ![r] =
              IF ~resolved.ok THEN Caught(settled, resolved.error)
              ELSE IF ~merged.ok THEN Caught(settled, merged.error)
              ELSE [settled EXCEPT !.pc = "loop", !.mergedContext = merged.value,
                                   !.i = @ + 1]]
    /\ UNCHANGED <<heap, built, config, basePath, router, composed, adapter>>

\* the loop is over: procedure._def.handler({ input, ctx: mergedContext })
InvokeHandler(r, outcome) ==
    /\ reqs[r].pc = "loop"
    /\ LoopDone(reqs[r])
    /\ outcome \in HandlerOutcomes(reqs[r].procedure._def.handler,
                                   reqs[r].validatedInput, reqs[r].mergedContext)
    /\ outcome.kind = "return" => Constructible(outcome.result)
    /\ LET req == reqs[r]
           called == Logged(req, [e |-> "handler", fn |-> req.procedure._def.handler,
                                  input |-> req.validatedInput,
                                  ctx |-> req.mergedContext])
       IN  reqs' = [reqs EXCEPT ![r] =
              IF outcome.kind = "throw"
              THEN Caught(Logged(called, [e |-> "threw", error |-> outcome.error]),
                          outcome.error)
              ELSE [called EXCEPT !.pc = "await_handler", !.pending = outcome.result]]
    /\ UNCHANGED <<heap, built, config, basePath, router, effectRuntimePromise, composed, adapter>>

\* `await resolveResult(handlerResult)` completes and the result is sent
HandlerSettled(r, runtime) ==
    /\ reqs[r].pc = "await_handler"
    /\ runtime \in EffectRuntimeAnswers
    /\ reqs[r].pending.t = "effect" => runtime = "runtime"
    /\ effectRuntimePromise' = runtime
    /\ LET req == reqs[r]
           resolved == resolveResult(runtime, req.pending)
           settled == Logged([req EXCEPT !.pending = Undefined],
                             [e |-> "returned", pending |-> req.pending,
                              settled |-> resolved])
       IN  reqs' = [reqs EXCEPT ![r] =
              IF ~resolved.ok THEN Caught(settled, resolved.error)
              ELSE Responded(settled, resolved.value)]
    /\ UNCHANGED <<heap, built, config, basePath, router, composed, adapter>>

\* the caller has the Response (or the rejection); the next request may come
Settle(r) ==
    /\ reqs[r].pc = "done"
    /\ reqs' = [reqs EXCEPT ![r] = IdleRequest]
    /\ UNCHANGED <<heap, built, config, basePath, router, effectRuntimePromise, composed, adapter>>

(***************************************************************************)
(* The requests the handler is given, and the configurations it is made of *)
(***************************************************************************)
Methods == {"GET", "POST", "PUT"}

Pathnames ==
    {DEFAULT_BASE_PATH \o RPC_PATH,
     DEFAULT_BASE_PATH \o SESSION_PATH,
     DEFAULT_BASE_PATH \o RPC_PATH \o <<"/">>,
     DEFAULT_BASE_PATH \o RPC_PATH \o <<"/", "x">>,
     DEFAULT_BASE_PATH,
     DEFAULT_BASE_PATH \o <<"/">>,
     DEFAULT_BASE_PATH \o <<"x">> \o RPC_PATH,
     RPC_PATH,
     <<"/">> \o RPC_PATH,
     <<"/", "c", "m", "s">> \o RPC_PATH,
     <<"/">>}

RawInputs ==
    {Obj([value |-> Num(n)]) : n \in 1..MaxValue}
    \cup {Obj([value |-> Str("not-a-number")]),
          Obj([value |-> Num(MaxValue), extra |-> Str("x")]),
          Str("gremlin")}

RequestedNames == Handlers \cup {"doesNotExist", "toString"}

RpcBodies ==
    {InvalidJson, Null, Num(1), Obj(<<>>),
     Obj([procedure |-> Str("")]), Obj([procedure |-> Num(1)])}
    \cup {Obj([procedure |-> Str(name)]) : name \in RequestedNames}
    \cup {Obj([procedure |-> Str(name), input |-> input]) :
              name \in RequestedNames, input \in RawInputs}

\* the body is read only by POST <basePath>/rpc
BodiesFor(method, pathname) ==
    IF method = "POST" /\ resolveRelativePath(pathname, basePath) = RPC_PATH
    THEN RpcBodies ELSE {Undefined}

\* procedures the builder returns for a chain of calls on `procedure`
RECURSIVE ChainHeap(_)
ChainHeap(calls) ==
    IF calls = <<>> THEN <<procedure>>
    ELSE LET h == ChainHeap(SubSeq(calls, 1, Len(calls) - 1))
             call == calls[Len(calls)]
         IN  IF call.op = "input" THEN builder_input(h, Len(h), call.arg)
             ELSE builder_use(h, Len(h), call.arg)

Chains ==
    {UseCalls(uses) : uses \in SeqsUpTo(Middlewares, MaxUses)}
    \cup {<<[op |-> "input", arg |-> schema]>> \o UseCalls(uses) :
              schema \in Schemas, uses \in SeqsUpTo(Middlewares, MaxUses)}

BuiltProcedures ==
    {builder_handler(ChainHeap(calls), Len(calls) + 1, handlerFn) :
         calls \in Chains, handlerFn \in Handlers}

\* middlewares arrays of Procedure values: m1, m2, m1, ... up to MaxUses
MiddlewareArrays ==
    {[k \in 1..n |-> IF k % 2 = 1 THEN "m1" ELSE "m2"] : n \in 0..MaxUses}

LiteralProcedures ==
    {Procedure(schema, middlewares, handlerFn) :
         schema \in {NoValue, "valueSchema"},
         middlewares \in MiddlewareArrays,
         handlerFn \in Handlers}

\* a router registers a procedure under the name of its handler
RouterOf(proc) == [name \in {proc._def.handler} |-> proc]

Routers == {<<>>} \cup {RouterOf(proc) : proc \in BuiltProcedures \cup LiteralProcedures}

\* createHttpHandler(config)
InitServing(basePaths, onErrors, routers) ==
    /\ heap = <<procedure>>
    /\ built = Undefined
    /\ \E bp \in basePaths, onError \in onErrors, table \in routers \cup {Undefined} :
          /\ config = [basePath |-> bp, onError |-> onError, router |-> table]
          /\ basePath = normalizeBasePath(IF bp = NoBasePath THEN DEFAULT_BASE_PATH ELSE bp)
          /\ router = IF table = Undefined THEN <<>> ELSE table
    /\ effectRuntimePromise = "null"
    /\ reqs = [r \in {1} |-> IdleRequest]
    /\ composed = Undefined
    /\ adapter = Undefined

\* the default mount point, every router, an error callback that returns
Init == InitServing({NoBasePath}, {"absent", "returns"}, Routers)

\* the same, with an error callback that may also throw
InitAnyCallback == InitServing({NoBasePath}, {"absent", "returns", "throws"}, Routers)

\* mount points as configurations write them, over a few routers
BasePaths ==
    {NoBasePath, DEFAULT_BASE_PATH, DEFAULT_BASE_PATH \o <<"/">>,
     DEFAULT_BASE_PATH \o <<"/", "/">>, <<"/">>, <<"c", "m", "s">>}

RoutingRouters ==
    {<<>>,
     RouterOf(Procedure(NoValue, <<"m1">>, "echo")),
     RouterOf(builder_handler(<<procedure>>, 1, "double"))}

InitRouting == InitServing(BasePaths, {"absent", "returns"}, RoutingRouters)

Next ==
    \/ \E r \in DOMAIN reqs, method \in Methods, pathname \in Pathnames :
          \E body \in BodiesFor(method, pathname) : HandleRequest(r, method, pathname, body)
    \/ \E r \in DOMAIN reqs : BodyParsed(r)
    \/ \E r \in DOMAIN reqs, outcome \in SessionOutcomes : SessionSettled(r, outcome)
    \/ \E r \in DOMAIN reqs : Validate(r)
    \/ \E r \in DOMAIN reqs, outcome \in MiddlewareOutcomes : InvokeMiddleware(r, outcome)
    \/ \E r \in DOMAIN reqs, runtime \in {"runtime", "none"} : MiddlewareSettled(r, runtime)
    \/ \E r \in DOMAIN reqs :
          /\ reqs[r].pc = "loop"
          /\ \E outcome \in HandlerOutcomes(reqs[r].procedure._def.handler,
                                            reqs[r].validatedInput,
                                            reqs[r].mergedContext) :
                 InvokeHandler(r, outcome)
    \/ \E r \in DOMAIN reqs, runtime \in {"runtime", "none"} : HandlerSettled(r, runtime)
    \/ \E r \in DOMAIN reqs : Settle(r)

Spec == Init /\ [][Next]_vars
SpecAnyCallback == InitAnyCallback /\ [][Next]_vars
SpecRouting == InitRouting /\ [][Next]_vars


(***************************************************************************)
(* router/middleware.ts: composeMiddleware(first, second).  `composed` is  *)
(* one call of the function it returns; `order` records what the two       *)
(* middleware were seen to do.                                             *)
(***************************************************************************)
ComposeInputs == {Undefined, Str("test-input")}

\* context fragments the two middleware produce
ComposeValues == {Obj([a |-> Num(1)]), Obj([b |-> Num(2)]), Obj([a |-> Num(2)]), Undefined}

\* what a call first(opts) / second(opts) does
ComposeOutcomes ==
    {[kind |-> "return", result |-> v] : v \in ComposeValues}
    \cup {[kind |-> "return", result |-> PromiseOf("resolve", v)] : v \in ComposeValues}
    \cup {[kind |-> "return", result |-> EffectOf("resolve", v)] : v \in ComposeValues}
    \cup {[kind |-> "return", result |-> PromiseOf("reject", ForeignError("Error"))],
          [kind |-> "throw", error |-> ForeignError("Error")]}

IdleCall ==
    [pc |-> "idle", opts |-> Undefined, order |-> <<>>, pending |-> Undefined,
     ctx1 |-> Undefined, ctx2 |-> Undefined, outcome |-> "none", result |-> Undefined]

\* ctx && typeof ctx === "object" && "_tag" in ctx ? await Effect.runPromise(ctx) : ctx
RunIfEffect(ctx) == IF ctx.t = "effect" THEN ctx.value ELSE ctx

\* { ...resolvedCtx1, ...resolvedCtx2 }
SpreadBoth(resolvedCtx1, resolvedCtx2) ==
    LET f1 == IF resolvedCtx1.t = "object" THEN resolvedCtx1.f ELSE <<>>
        f2 == IF resolvedCtx2.t = "object" THEN resolvedCtx2.f ELSE <<>>
    IN  Obj([k \in DOMAIN f1 \cup DOMAIN f2 |-> IF k \in DOMAIN f2 THEN f2[k] ELSE f1[k]])

Rejected(call, error) ==
    [call EXCEPT !.pc = "done", !.outcome = "rejected", !.result = error,
                 !.pending = Undefined]

\* a variant that starts both middleware at once
ComposedCalled_parallel(opts, outcome) ==
    /\ composed.pc = "idle"
    /\ LET called == [IdleCall EXCEPT
                         !.opts = opts,
                         !.order = <<[e |-> "start", who |-> 1, opts |-> opts],
                                     [e |-> "start", who |-> 2, opts |-> opts]>>]
       IN  composed' = IF outcome.kind = "throw" THEN Rejected(called, outcome.error)
                       ELSE [called EXCEPT !.pc = "await_first",
                                           !.pending = outcome.result]
    /\ UNCHANGED <<heap, built, config, basePath, router, effectRuntimePromise, reqs, adapter>>

\* the composed function is called: first(opts) runs up to `await`
ComposedCalled(opts, outcome) ==
    /\ composed.pc = "idle"
    /\ LET called == [IdleCall EXCEPT
                         !.opts = opts,
                         !.order = <<[e |-> "start", who |-> 1, opts |-> opts]>>]
       IN  composed' = IF outcome.kind = "throw" THEN Rejected(called, outcome.error)
                       ELSE [called EXCEPT !.pc = "await_first",
                                           !.pending = outcome.result]
    /\ UNCHANGED <<heap, built, config, basePath, router, effectRuntimePromise, reqs, adapter>>

\* `await first(opts)` completes, then second(opts) runs up to `await`
FirstSettled(outcome) ==
    /\ composed.pc = "await_first"
    /\ LET failed == isPromiseLike(composed.pending) /\ composed.pending.settle = "reject"
           ctx1 == IF isPromiseLike(composed.pending) THEN composed.pending.value
                   ELSE composed.pending
           settled == [composed EXCEPT
                          !.order = Append(@, [e |-> "settled", who |-> 1, ok |-> ~failed]),
                          !.pending = Undefined]
           called == [settled EXCEPT
                         !.ctx1 = ctx1,
                         !.order = Append(@, [e |-> "start", who |-> 2,
                                              opts |-> composed.opts])]
       IN  composed' = IF failed THEN Rejected(settled, composed.pending.value)
                       ELSE IF outcome.kind = "throw" THEN Rejected(called, outcome.error)
                       ELSE [called EXCEPT !.pc = "await_second",
                                           !.pending = outcome.result]
    /\ UNCHANGED <<heap, built, config, basePath, router, effectRuntimePromise, reqs, adapter>>

\* `await second(opts)` completes
SecondSettled ==
    /\ composed.pc = "await_second"
    /\ LET failed == isPromiseLike(composed.pending) /\ composed.pending.settle = "reject"
           ctx2 == IF isPromiseLike(composed.pending) THEN composed.pending.value
                   ELSE composed.pending
           settled == [composed EXCEPT
                          !.order = Append(@, [e |-> "settled", who |-> 2, ok |-> ~failed]),
                          !.pending = Undefined]
       IN  composed' = IF failed THEN Rejected(settled, composed.pending.value)
                       ELSE [settled EXCEPT !.pc = "merge", !.ctx2 = ctx2]
    /\ UNCHANGED <<heap, built, config, basePath, router, effectRuntimePromise, reqs, adapter>>

\* the Effects are run and the two contexts are spread into the result
ContextsMerged ==
    /\ composed.pc = "merge"
    /\ composed' = [composed EXCEPT
                       !.pc = "done",
                       !.outcome = "resolved",
                       !.result = SpreadBoth(RunIfEffect(composed.ctx1),
                                             RunIfEffect(composed.ctx2))]
    /\ UNCHANGED <<heap, built, config, basePath, router, effectRuntimePromise, reqs, adapter>>

\* the caller has the result; the composed function may be called again
ComposedSettled ==
    /\ composed.pc = "done"
    /\ composed' = IdleCall
    /\ UNCHANGED <<heap, built, config, basePath, router, effectRuntimePromise, reqs, adapter>>

InitCompose ==
    /\ heap = <<procedure>>
    /\ built = Undefined
    /\ config = Undefined
    /\ basePath = <<>>
    /\ router = <<>>
    /\ effectRuntimePromise = "null"
    /\ reqs = <<>>
    /\ composed = IdleCall
    /\ adapter = Undefined

NextCompose ==
    \/ \E opts \in ComposeInputs, outcome \in ComposeOutcomes : ComposedCalled(opts, outcome)
    \/ \E outcome \in ComposeOutcomes : FirstSettled(outcome)
    \/ SecondSettled
    \/ ContextsMerged
    \/ ComposedSettled

SpecCompose == InitCompose /\ [][NextCompose]_vars

(***************************************************************************)
(* Two invocations of the request function in flight at once: every await  *)
(* (request.json, auth.getSession, each middleware, the handler) is a      *)
(* point where the other invocation may run.                               *)
(***************************************************************************)
ConcurrentPathnames == {DEFAULT_BASE_PATH \o RPC_PATH, DEFAULT_BASE_PATH \o SESSION_PATH}

ConcurrentBodies ==
    {Obj([procedure |-> Str("echo")]),
     Obj([procedure |-> Str("echo"), input |-> Str("gremlin")])}

ConcurrentSessionOutcomes ==
    {PromiseOf("resolve", UserSession), PromiseOf("resolve", AnonSession),
     PromiseOf("reject", ForeignError("Error"))}

ConcurrentMiddlewareOutcomes ==
    {[kind |-> "return", result |-> Obj([v |-> Num(1)])],
     [kind |-> "return", result |-> PromiseOf("resolve", Obj([v |-> Num(2)]))],
     [kind |-> "return", result |-> EffectOf("resolve", Obj([session |-> Str("forged")]))],
     [kind |-> "return", result |-> PromiseOf("reject", ForeignError("Error"))]}

ConcurrentRouter == RouterOf(Procedure(NoValue, <<"m1", "m2">>, "echo"))

InitConcurrent ==
    /\ heap = <<procedure>>
    /\ built = Undefined
    /\ \E onError \in {"absent", "returns"} :
          config = [basePath |-> NoBasePath, onError |-> onError, router |-> ConcurrentRouter]
    /\ basePath = normalizeBasePath(DEFAULT_BASE_PATH)
    /\ router = ConcurrentRouter
    /\ effectRuntimePromise = "null"
    /\ reqs = [r \in {1, 2} |-> IdleRequest]
    /\ composed = Undefined
    /\ adapter = Undefined

NextConcurrent ==
    \/ \E r \in DOMAIN reqs, method \in {"GET", "POST"}, pathname \in ConcurrentPathnames :
          \E body \in (IF method = "POST" /\ pathname = DEFAULT_BASE_PATH \o RPC_PATH
                       THEN ConcurrentBodies ELSE {Undefined}) :
              HandleRequest(r, method, pathname, body)
    \/ \E r \in DOMAIN reqs : BodyParsed(r)
    \/ \E r \in DOMAIN reqs, outcome \in ConcurrentSessionOutcomes : SessionSettled(r, outcome)
    \/ \E r \in DOMAIN reqs : Validate(r)
    \/ \E r \in DOMAIN reqs, outcome \in ConcurrentMiddlewareOutcomes :
          InvokeMiddleware(r, outcome)
    \/ \E r \in DOMAIN reqs, runtime \in {"runtime", "none"} : MiddlewareSettled(r, runtime)
    \/ \E r \in DOMAIN reqs :
          /\ reqs[r].pc = "loop"
          /\ \E outcome \in HandlerOutcomes(reqs[r].procedure._def.handler,
                                            reqs[r].validatedInput,
                                            reqs[r].mergedContext) :
                 InvokeHandler(r, outcome)
    \/ \E r \in DOMAIN reqs, runtime \in {"runtime", "none"} : HandlerSettled(r, runtime)
    \/ \E r \in DOMAIN reqs : Settle(r)

SpecConcurrent == InitConcurrent /\ [][NextConcurrent]_vars

(***************************************************************************)
(* The content resource adapters: the in-memory FakeContentResourceAdapter *)
(* over a FakeDatabase, and the cursor-based                               *)
(* DrizzleContentResourceAdapter.  Strings are sequences of characters;    *)
(* a limit is a JavaScript number, kept in halves so that a limit that is  *)
(* not an integer can be passed.  The type and createdById filters are     *)
(* left out: every resource has the same type and creator.                 *)
(***************************************************************************)
DEFAULT_PAGE_SIZE == 50

IN_MEMORY_CURSOR_PREFIX == <<"i", "d", "x", "_">>

CONTENT_RESOURCE_CURSOR_PREFIX == <<"c", "r", "s", "_">>

HexDigits == <<"0", "1", "2", "3", "4", "5", "6", "7", "8", "9", "a", "b", "c", "d", "e", "f">>

Base36Digits ==
    HexDigits \o <<"g", "h", "i", "j", "k", "l", "m", "n", "o", "p", "q", "r", "s", "t",
                   "u", "v", "w", "x", "y", "z">>

\* the characters resource ids are made of, in the order of their codes
Letters == <<"a", "b", "c", "d", "e", "f">>

\* String.prototype.charCodeAt on a character of an id
charCodeAt(c) == 96 + (CHOOSE k \in 1..Len(Letters) : Letters[k] = c)

CodesOf(id) == [k \in 1..Len(id) |-> charCodeAt(id[k])]

DigitValue(c, digits) == (CHOOSE k \in 1..Len(digits) : digits[k] = c) - 1

IsDigit(c, digits) == \E k \in 1..Len(digits) : digits[k] = c

startsWith(s, prefix) ==
    Len(s) >= Len(prefix) /\ SubSeq(s, 1, Len(prefix)) = prefix

\* Number.prototype.toString(36) of a non-negative integer
RECURSIVE toString36(_)
toString36(n) ==
    IF n < 36 THEN <<Base36Digits[n + 1]>>
    ELSE toString36(n \div 36) \o <<Base36Digits[(n % 36) + 1]>>

\* the value of the longest prefix of s made of digits of the radix
RECURSIVE DigitsPrefix(_, _, _)
DigitsPrefix(s, digits, acc) ==
    IF s = <<>> \/ ~IsDigit(Head(s), digits) THEN acc
    ELSE DigitsPrefix(Tail(s), digits, acc * Len(digits) + DigitValue(Head(s), digits))

\* Number.parseInt(s, radix): an optional sign, then the longest prefix of
\* digits; NaN when there is no digit
parseInt(s, digits) ==
    LET negative == s # <<>> /\ Head(s) = "-"
        rest == IF negative THEN Tail(s) ELSE s
    IN  IF rest = <<>> \/ ~IsDigit(Head(rest), digits) THEN NaN
        ELSE Num((IF negative THEN -1 ELSE 1) * DigitsPrefix(rest, digits, 0))

encodeInMemoryCursor(index) == Str(IN_MEMORY_CURSOR_PREFIX \o toString36(index))

decodeInMemoryCursor(cursor) ==
    IF cursor = Undefined \/ cursor.s = <<>> \/ ~startsWith(cursor.s, IN_MEMORY_CURSOR_PREFIX)
    THEN Null
    ELSE LET parsed == parseInt(SubSeq(cursor.s, Len(IN_MEMORY_CURSOR_PREFIX) + 1,
                                       Len(cursor.s)), Base36Digits)
         IN  IF parsed = NaN THEN Null
             ELSE IF parsed.n < 0 THEN Null
             ELSE parsed

\* charCode.toString(16).padStart(4, "0")
Hex4(code) ==
    <<HexDigits[((code \div 4096) % 16) + 1], HexDigits[((code \div 256) % 16) + 1],
      HexDigits[((code \div 16) % 16) + 1], HexDigits[(code % 16) + 1]>>

RECURSIVE encodeCursorToken(_)
encodeCursorToken(value) ==
    IF value = <<>> THEN <<>>
    ELSE Hex4(charCodeAt(Head(value))) \o encodeCursorToken(Tail(value))

\* the decoded string, as the sequence of its character codes, or null
decodeCursorToken(token) ==
    IF Len(token) = 0 \/ Len(token) % 4 # 0 THEN Null
    ELSE IF \E k \in 1..Len(token) : ~IsDigit(token[k], HexDigits) THEN Null
    ELSE [t |-> "string",
          codes |-> [k \in 1..(Len(token) \div 4) |->
                        DigitsPrefix(SubSeq(token, 4 * k - 3, 4 * k), HexDigits, 0)]]

encodeContentResourceCursor(id) ==
    Str(CONTENT_RESOURCE_CURSOR_PREFIX \o encodeCursorToken(id))

decodeContentResourceCursor(cursor) ==
    IF cursor = Undefined \/ cursor.s = <<>>
       \/ ~startsWith(cursor.s, CONTENT_RESOURCE_CURSOR_PREFIX)
    THEN Null
    ELSE decodeCursorToken(SubSeq(cursor.s, Len(CONTENT_RESOURCE_CURSOR_PREFIX) + 1,
                                  Len(cursor.s)))

\* the order of two strings given by their character codes
RECURSIVE CodesLess(_, _)
CodesLess(a, b) ==
    IF b = <<>> THEN FALSE
    ELSE IF a = <<>> THEN TRUE
    ELSE IF Head(a) # Head(b) THEN Head(a) < Head(b)
    ELSE CodesLess(Tail(a), Tail(b))

\* the ids of a set, ascending
RECURSIVE Ascending(_)
Ascending(ids) ==
    IF ids = {} THEN <<>>
    ELSE LET least == CHOOSE id \in ids :
                          \A other \in ids \ {id} : CodesLess(CodesOf(id), CodesOf(other))
         IN  <<least>> \o Ascending(ids \ {least})

\* a number given in halves: Halves(1) is 0.5, Halves(2) is 1
Halves(h) == [t |-> "number", halves |-> h]

\* typeof limit === "number" && limit > 0 ? limit : DEFAULT_PAGE_SIZE, in halves
PageSize(limit) ==
    IF limit # Undefined /\ limit.halves > 0 THEN limit.halves ELSE 2 * DEFAULT_PAGE_SIZE

\* Array.prototype.slice(start, end) with an end given in halves: the end
\* is truncated to an integer
slice(array, start, endHalves) ==
    SubSeq(array, start + 1, IF endHalves \div 2 < Len(array) THEN endHalves \div 2
                             ELSE Len(array))

\* the resources a query sees: those with deletedAt null
Live(resources) == {id \in DOMAIN resources : ~resources[id].deleted}

\* FakeContentResourceAdapter.listContentResources
FakeList(resources, limit, cursor) ==
    LET pageSize == PageSize(limit)
        cursorIndex == decodeInMemoryCursor(cursor)
        startIndex == IF cursorIndex = Null THEN 0 ELSE cursorIndex.n + 1
        sorted == Ascending(Live(resources))
        items == slice(sorted, startIndex, 2 * startIndex + pageSize)
        hasMore == startIndex + Len(items) < Len(sorted)
        lastIndex == startIndex + Len(items) - 1
    IN  [items |-> items,
         cursor |-> IF hasMore /\ Len(items) > 0
                    THEN encodeInMemoryCursor(lastIndex) ELSE Undefined,
         hasMore |-> hasMore]

\* findMany({ where, orderBy: asc(id), limit }): the rows after the cursor
\* id, ascending, cut at the limit; a database that answers a limit that is
\* not an integer rounds it down or up (one that rejects it returns no page)
FindMany(resources, cursorId, limitHalves, rounding) ==
    LET matching == {id \in Live(resources) :
                        cursorId = Null \/ CodesLess(cursorId.codes, CodesOf(id))}
        rows == IF limitHalves % 2 = 0 \/ rounding = "down"
                THEN limitHalves \div 2 ELSE (limitHalves \div 2) + 1
    IN  slice(Ascending(matching), 0, 2 * rows)

\* DrizzleContentResourceAdapter.listContentResources
DrizzleList(resources, limit, cursor, rounding) ==
    LET pageSize == PageSize(limit)
        cursorId == decodeContentResourceCursor(cursor)
        found == FindMany(resources, cursorId, pageSize + 2, rounding)
        items == slice(found, 0, pageSize)
        hasMore == 2 * Len(found) > pageSize
    IN  [items |-> items,
         cursor |-> IF hasMore /\ items # <<>>
                    THEN encodeContentResourceCursor(items[Len(items)]) ELSE Undefined,
         hasMore |-> hasMore]

MaxRows == 3

\* data.id of createContentResource
ResourceIds == {<<Letters[k]>> : k \in 1..MaxRows}

\* filters.limit: absent, negative, zero, fractions and integers
Limits == {Undefined} \cup {Halves(h) : h \in {-2, 0, 1, 2, 3, 4}}

\* filters.cursor: absent, every cursor either adapter can hand out, and
\* strings that are no cursor
Cursors ==
    {Undefined, Str(<<>>), Str(IN_MEMORY_CURSOR_PREFIX), Str(CONTENT_RESOURCE_CURSOR_PREFIX),
     Str(IN_MEMORY_CURSOR_PREFIX \o <<"-", "1">>), Str(IN_MEMORY_CURSOR_PREFIX \o <<"z">>),
     Str(CONTENT_RESOURCE_CURSOR_PREFIX \o <<"0", "0", "6">>),
     Str(CONTENT_RESOURCE_CURSOR_PREFIX \o <<"0", "0", "z", "z">>),
     Str(CONTENT_RESOURCE_CURSOR_PREFIX \o <<"0", "0", "0", "0">>)}
    \cup {encodeInMemoryCursor(k) : k \in 0..MaxRows}
    \cup {encodeContentResourceCursor(id) : id \in ResourceIds}

InitAdapter ==
    /\ heap = <<procedure>>
    /\ built = Undefined
    /\ config = Undefined
    /\ basePath = <<>>
    /\ router = <<>>
    /\ effectRuntimePromise = "null"
    /\ reqs = <<>>
    /\ composed = Undefined
    /\ \E kind \in {"fake", "drizzle"} :
          adapter = [kind |-> kind, resources |-> <<>>, page |-> Undefined,
                     limit |-> Undefined, cursor |-> Undefined]

\* createContentResource({ id, ... }): the FakeDatabase sets the map entry,
\* the database inserts a new row (the id is the primary key)
CreateContentResource(id) ==
    /\ adapter.kind = "drizzle" => id \notin DOMAIN adapter.resources
    /\ adapter' = [adapter EXCEPT
          !.resources = [k \in DOMAIN adapter.resources \cup {id} |->
                            IF k = id THEN [deleted |-> FALSE] ELSE adapter.resources[k]]]
    /\ UNCHANGED <<heap, built, config, basePath, router, effectRuntimePromise, reqs, composed>>

\* deleteContentResource(id): sets deletedAt on the resource when it exists
DeleteContentResource(id) ==
    /\ id \in DOMAIN adapter.resources
    /\ adapter' = [adapter EXCEPT !.resources[id].deleted = TRUE]
    /\ UNCHANGED <<heap, built, config, basePath, router, effectRuntimePromise, reqs, composed>>

\* listContentResources({ limit, cursor })
ListContentResources(limit, cursor, rounding) ==
    /\ adapter.kind = "fake" => rounding = "down"
    /\ adapter' = [adapter EXCEPT
          !.page = IF adapter.kind = "fake"
                   THEN FakeList(adapter.resources, limit, cursor)
                   ELSE DrizzleList(adapter.resources, limit, cursor, rounding),
          !.limit = limit,
          !.cursor = cursor]
    /\ UNCHANGED <<heap, built, config, basePath, router, effectRuntimePromise, reqs, composed>>

NextAdapter ==
    \/ \E id \in ResourceIds : CreateContentResource(id)
    \/ \E id \in ResourceIds : DeleteContentResource(id)
    \/ \E limit \in Limits, cursor \in Cursors, rounding \in {"down", "up"} :
          ListContentResources(limit, cursor, rounding)

SpecAdapter == InitAdapter /\ [][NextAdapter]_vars

(***************************************************************************)
(* Vocabulary of the properties.                                           *)
(***************************************************************************)
\* executeProcedure has been entered and its synchronous prefix has run
Executing(req) ==
    /\ req.procedure # Undefined
    /\ req.session # Undefined
    /\ req.pc \in {"loop", "await_middleware", "await_handler", "done"}

HasDef(req) == "_def" \in DOMAIN req.procedure

EventsOf(req, kinds) == SelectSeq(req.log, LAMBDA ev : ev.e \in kinds)

\* { error: { code, message } }
ErrorBody(code, message) ==
    Obj([error |-> Obj([code |-> Str(code), message |-> Text(message)])])

\* the status table of the error taxonomy
StatusTable ==
    [VALIDATION |-> 400, UNAUTHORIZED |-> 401, FORBIDDEN |-> 403,
     NOT_FOUND |-> 404, CONFLICT |-> 409, INTERNAL |-> 500]

\* the value a handler threw, or its promise rejected with
HandlerErrors(req) ==
    {req.log[k + 1].error : k \in {j \in 1..(Len(req.log) - 1) :
         req.log[j].e = "handler" /\ req.log[j + 1].e = "threw"}}
    \cup {req.log[k + 1].pending.value : k \in {j \in 1..(Len(req.log) - 1) :
         /\ req.log[j].e = "handler"
         /\ req.log[j + 1].e = "returned"
         /\ req.log[j + 1].pending.t = "promise"
         /\ req.log[j + 1].pending.settle = "reject"}}

\* every value thrown at the request function from inside request handling:
\* by auth.getSession, by a middleware or by a procedure handler
ThrownInside(req) ==
    {ev.error : ev \in {req.log[k] : k \in {j \in 1..Len(req.log) :
                   req.log[j].e \in {"sessionRejected", "threw"}}}}
    \cup {ev.settled.error : ev \in {req.log[k] : k \in {j \in 1..Len(req.log) :
                   req.log[j].e \in {"resolved", "returned"} /\ ~req.log[j].settled.ok}}}

\* a middleware step of the call did not succeed
MiddlewareFailed(req) ==
    \/ \E k \in 1..(Len(req.log) - 1) :
          req.log[k].e = "middleware" /\ req.log[k + 1].e = "threw"
    \/ \E k \in 1..Len(req.log) :
          /\ req.log[k].e = "resolved"
          /\ \/ ~req.log[k].settled.ok
             \/ req.log[k].settled.value.t \notin {"object", "undefined", "null"}

\* { ...seed, ...fragment1, ..., ...fragmentN }: later keys override
RECURSIVE ExpectedContext(_, _)
ExpectedContext(seed, fragments) ==
    IF fragments = <<>> THEN seed
    ELSE LET before == ExpectedContext(seed, SubSeq(fragments, 1, Len(fragments) - 1))
             last == fragments[Len(fragments)]
         IN  IF last.t # "object" THEN before
             ELSE [k \in DOMAIN before \cup DOMAIN last.f |->
                      IF k \in DOMAIN last.f THEN last.f[k] ELSE before[k]]

ResolvedValues(req) ==
    LET evs == EventsOf(req, {"resolved"})
    IN  [k \in 1..Len(evs) |-> evs[k].settled.value]

\* validation, then (invoke i, resolve i) for i = 1..n, then the handler
ExpectedOrder(_def) ==
    LET n == Len(_def.middlewares)
    IN  (IF _def.input = NoValue THEN <<>> ELSE <<[e |-> "validate", i |-> 0, fn |-> "-"]>>)
        \o [k \in 1..(2 * n) |->
               [e |-> IF k % 2 = 1 THEN "middleware" ELSE "resolved",
                i |-> (k + 1) \div 2,
                fn |-> IF k % 2 = 1 THEN _def.middlewares[(k + 1) \div 2] ELSE "-"]]
        \o <<[e |-> "handler", i |-> 0, fn |-> _def.handler]>>

ObservedOrder(req) ==
    LET evs == EventsOf(req, {"validate", "middleware", "resolved", "handler"})
    IN  [k \in 1..Len(evs) |->
            [e |-> evs[k].e,
             i |-> IF "i" \in DOMAIN evs[k] THEN evs[k].i ELSE 0,
             fn |-> IF "fn" \in DOMAIN evs[k] THEN evs[k].fn ELSE "-"]]

\* the request was POST <basePath>/rpc with a body naming procedure `name`
NamesProcedure(req, name) ==
    /\ req.method = "POST"
    /\ resolveRelativePath(req.pathname, basePath) = RPC_PATH
    /\ req.body.t = "object"
    /\ "procedure" \in DOMAIN req.body.f
    /\ req.body.f.procedure = Str(name)

\* the path is neither basePath nor below basePath + "/"
Outside(pathname) ==
    /\ pathname # basePath
    /\ ~StartsWith(pathname, basePath \o <<"/">>)

WellFormed(req) ==
    /\ req.outcome = "response"
    /\ \/ req.response.status = 200
       \/ /\ req.response.status \in {400, 401, 403, 404, 409, 500}
          /\ req.response.body.t = "object"
          /\ DOMAIN req.response.body.f = {"error"}
          /\ req.response.body.f.error.t = "object"
          /\ DOMAIN req.response.body.f.error.f = {"code", "message"}
          /\ req.response.body.f.error.f.code.t = "string"
          /\ req.response.body.f.error.f.code.s \in GremlinErrorCodes
          /\ req.response.body.f.error.f.message.t = "string"

(***************************************************************************)
(* C1 (SpecBuilder).  After use(m1)...use(mn) and handler(h), n >= 1, the  *)
(* built Procedure's middleware sequence is exactly <<m1, ..., mn>>, in    *)
(* call order: every use() appends and none replaces.                      *)
(***************************************************************************)
C1_UseAppendsInOrder ==
    (built # Undefined /\ UsesOf(built.calls) # <<>>) =>
        /\ "middlewares" \in DOMAIN built._def
        /\ built._def.middlewares = UsesOf(built.calls)

(***************************************************************************)
(* C2 (Spec).  For a router entry built with                               *)
(* procedure.input(schema).handler(h), no middleware, and an RPC input the *)
(* schema accepts, POST <basePath>/rpc answers 200 with h's result on the  *)
(* parsed input as JSON body.                                              *)
(***************************************************************************)
C2_BuiltProcedureAnswers200 ==
    \A r \in DOMAIN reqs :
        LET req == reqs[r]
            parsed == safeParse(req.procedure._def.input, req.input)
            result == IF req.procedure._def.handler = "double"
                      THEN DoubleOf(parsed.data).result
                      ELSE EchoOf(parsed.data, SeedContext(req, r))
        IN  (/\ req.pc = "done"
             /\ req.procedure # Undefined
             /\ req.session # Undefined
             /\ HasDef(req)
             /\ req.procedure.origin = "builder"
             /\ Len(req.procedure.calls) = 1
             /\ req.procedure.calls[1].op = "input"
             /\ req.procedure._def.handler \in {"double", "echo"}
             /\ parsed.success)
            => /\ req.outcome = "response"
               /\ req.response.status = 200
               /\ req.response.body = ToJSON(result)

(***************************************************************************)
(* C3 (Spec).  executeProcedure on a procedure with an input schema, given *)
(* raw input the schema rejects, rejects with GremlinError VALIDATION,     *)
(* message 'Input validation failed.', cause the validator's error, and    *)
(* the handler is never invoked.                                           *)
(***************************************************************************)
C3_ValidationGate ==
    \A r \in DOMAIN reqs :
        LET req == reqs[r]
        IN  (/\ Executing(req)
             /\ HasDef(req)
             /\ req.procedure._def.input \in Schemas
             /\ ~safeParse(req.procedure._def.input, req.input).success)
            => /\ req.pc = "done"
               /\ req.caught = [t |-> "GremlinError", code |-> "VALIDATION",
                                message |-> [text |-> "Input validation failed."],
                                cause |-> ForeignError("ZodError")]
               /\ EventsOf(req, {"handler", "middleware"}) = <<>>

C3_Witness ==
    \E r \in DOMAIN reqs :
        /\ Executing(reqs[r])
        /\ HasDef(reqs[r])
        /\ reqs[r].procedure.origin = "literal"
        /\ reqs[r].procedure._def.input = "valueSchema"
        /\ reqs[r].input = Obj([value |-> Str("not-a-number")])
        /\ reqs[r].pc = "done"
        /\ reqs[r].caught.t = "GremlinError"

C5_SequentialOrder ==
    \A r \in DOMAIN reqs :
        LET req == reqs[r]
        IN  (/\ req.pc = "done"
             /\ req.procedure # Undefined
             /\ req.outcome = "response"
             /\ req.response.status = 200)
            => ObservedOrder(req) = ExpectedOrder(req.procedure._def)

C5_Witness ==
    \E r \in DOMAIN reqs :
        /\ reqs[r].pc = "done"
        /\ reqs[r].procedure # Undefined
        /\ reqs[r].outcome = "response"
        /\ reqs[r].response.status = 200
        /\ reqs[r].procedure._def.input # NoValue
        /\ Len(reqs[r].procedure._def.middlewares) = MaxUses
        /\ Len(EventsOf(reqs[r], {"resolved"})) = MaxUses

(***************************************************************************)
(* C6 (Spec).  The ctx the handler is given is the seed {request, session, *)
(* headers} shallow-merged with the resolved fragment of every registered  *)
(* middleware, in registration order, later keys winning; so after         *)
(* use(() => ({v: 1})).use(() => ({v: 2})) the handler observes v = 2.     *)
(***************************************************************************)
C6_HandlerSeesMergedContext ==
    \A r \in DOMAIN reqs :
        LET req == reqs[r]
            handled == EventsOf(req, {"handler"})
        IN  (/\ req.pc = "done"
             /\ Executing(req)
             /\ HasDef(req)
             /\ UsesOf(req.procedure.calls) # <<>>
             /\ validateInput(req.procedure._def, req.input).ok
             /\ ~MiddlewareFailed(req))
            => /\ Len(handled) = 1
               /\ Len(ResolvedValues(req)) = Len(UsesOf(req.procedure.calls))
               /\ handled[1].ctx = ExpectedContext(SeedContext(req, r), ResolvedValues(req))

(***************************************************************************)
(* C7 (SpecAnyCallback).  Whatever the session provider, the middleware    *)
(* and the handlers do, the request function resolves to a Response that   *)
(* is a 200 or a JSON error envelope {error: {code, message}} with a code  *)
(* of the taxonomy and a status of the table; it never rejects.            *)
(***************************************************************************)
C7_AlwaysWellFormedResponse ==
    \A r \in DOMAIN reqs : reqs[r].pc = "done" => WellFormed(reqs[r])

(***************************************************************************)
(* C8 (Spec).  A value thrown inside request handling that is not a        *)
(* GremlinError gives status 500 and the body {error: {code: 'INTERNAL',   *)
(* message: 'Internal server error.'}}, the value being attached only as   *)
(* the cause; a thrown GremlinError keeps its own code and message.        *)
(***************************************************************************)
C8_ForeignErrorsBecomeInternal ==
    \A r \in DOMAIN reqs :
        \A error \in ThrownInside(reqs[r]) :
            reqs[r].pc = "done" =>
                /\ reqs[r].outcome = "response"
                /\ IF IsGremlinError(error)
                   THEN reqs[r].response.body = ErrorBody(error.code, error.message)
                   ELSE /\ reqs[r].response.status = 500
                        /\ reqs[r].response.body =
                              ErrorBody("INTERNAL", [text |-> "Internal server error."])
                        /\ \A ev \in {reqs[r].log[k] : k \in 1..Len(reqs[r].log)} :
                              ev.e = "onError" =>
                                  ev.error = [t |-> "GremlinError", code |-> "INTERNAL",
                                              message |-> [text |-> "Internal server error."],
                                              cause |-> error]

C8_Witness ==
    \E r \in DOMAIN reqs :
        /\ reqs[r].pc = "done"
        /\ ForeignError("Error") \in ThrownInside(reqs[r])
        /\ reqs[r].response.status = 500
        /\ \E k \in 1..Len(reqs[r].log) : reqs[r].log[k].e = "onError"
        /\ \E k \in 1..Len(reqs[r].log) : reqs[r].log[k].e = "middleware"

(***************************************************************************)
(* C9 (Spec).  For any non-empty name that is not a key of the router      *)
(* table (the empty default included), POST <basePath>/rpc with            *)
(* {procedure: name} gives 404 and the body {error: {code: 'NOT_FOUND',    *)
(* message: 'Procedure not found: <name>'}}.                               *)
(***************************************************************************)
C9_UnknownProcedureIs404 ==
    \A r \in DOMAIN reqs : \A name \in RequestedNames :
        (/\ reqs[r].pc = "done"
         /\ NamesProcedure(reqs[r], name)
         /\ name \notin DOMAIN router)
        => /\ reqs[r].outcome = "response"
           /\ reqs[r].response.status = 404
           /\ reqs[r].response.body =
                 ErrorBody("NOT_FOUND", [text |-> "Procedure not found: ", name |-> name])

(***************************************************************************)
(* C10 (SpecRouting).  A request whose path is neither basePath nor below  *)
(* basePath + '/' gets 404 NOT_FOUND whatever its method, and neither      *)
(* auth.getSession nor a procedure is invoked for it; a path that only has *)
(* basePath as a string prefix is outside.                                 *)
(***************************************************************************)
C10_OutsideBasePathIs404 ==
    \A r \in DOMAIN reqs :
        LET req == reqs[r]
        IN  (req.pc # "idle" /\ Outside(req.pathname))
            => /\ req.pc = "done"
               /\ req.outcome = "response"
               /\ req.response.status = 404
               /\ req.response.body.f.error.f.code = Str("NOT_FOUND")
               /\ EventsOf(req, {"getSession", "validate", "middleware", "handler"}) = <<>>

C10_Witness ==
    \E r \in DOMAIN reqs :
        /\ reqs[r].pc = "done"
        /\ reqs[r].method = "POST"
        /\ basePath = DEFAULT_BASE_PATH
        /\ reqs[r].pathname = DEFAULT_BASE_PATH \o <<"x">> \o RPC_PATH
        /\ reqs[r].response.status = 404

\* the path is basePath itself or lies below basePath + "/"
Under(pathname) ==
    \/ pathname = basePath
    \/ StripTrailingSlashes(pathname) = basePath
    \/ StartsWith(pathname, basePath \o <<"/">>)

\* what is left of a path under basePath once basePath and the trailing
\* slashes are taken off; "/" when nothing is left
RelativeOf(pathname) ==
    LET rest == StripTrailingSlashes(SubSeq(pathname, Len(basePath) + 1, Len(pathname)))
    IN  IF rest = <<>> THEN <<"/">> ELSE rest

(***************************************************************************)
(* C11 (SpecRouting).  Under basePath, every method and relative path      *)
(* other than GET /session and POST /rpc (POST /session, GET /rpc,         *)
(* PUT /rpc, GET /, GET /rpc/x, ...) gets 404 NOT_FOUND, and neither       *)
(* auth.getSession nor a procedure is invoked for it.                      *)
(***************************************************************************)
C11_OtherRoutesAre404 ==
    \A r \in DOMAIN reqs :
        LET req == reqs[r]
        IN  (/\ req.pc # "idle"
             /\ Under(req.pathname)
             /\ ~(req.method = "GET" /\ RelativeOf(req.pathname) = SESSION_PATH)
             /\ ~(req.method = "POST" /\ RelativeOf(req.pathname) = RPC_PATH))
            => /\ req.pc = "done"
               /\ req.outcome = "response"
               /\ req.response.status = 404
               /\ req.response.body.f.error.f.code = Str("NOT_FOUND")
               /\ EventsOf(req, {"getSession", "validate", "middleware", "handler"}) = <<>>

C11_Witness ==
    \E r \in DOMAIN reqs :
        /\ reqs[r].pc = "done"
        /\ reqs[r].method = "PUT"
        /\ basePath = DEFAULT_BASE_PATH
        /\ reqs[r].pathname = DEFAULT_BASE_PATH \o RPC_PATH
        /\ RouterOf(Procedure(NoValue, <<"m1">>, "echo")) = router
        /\ reqs[r].response.status = 404

\* the request was POST <basePath>/rpc
IsRpcCall(req) ==
    /\ req.method = "POST"
    /\ resolveRelativePath(req.pathname, basePath) = RPC_PATH

\* the body holds a JSON object with a non-empty string `procedure`
NamesSomeProcedure(body) ==
    /\ body.t = "object"
    /\ "procedure" \in DOMAIN body.f
    /\ body.f.procedure.t = "string"
    /\ body.f.procedure.s # ""

\* the error was raised while the RPC body was read
IsBodyError(error) ==
    /\ IsGremlinError(error)
    /\ error.code = "VALIDATION"
    /\ error.message \in {[text |-> "Request body must be valid JSON."],
                          [text |-> "RPC body must be an object."],
                          [text |-> "RPC body must include a procedure."]}

(***************************************************************************)
(* C12 (Spec).  POST <basePath>/rpc with a body that is not valid JSON, is *)
(* not a JSON object, or has no non-empty string `procedure` is answered   *)
(* 400 with code VALIDATION; a body with a valid `procedure` and no        *)
(* `input` is accepted and the procedure gets undefined as its raw input.  *)
(***************************************************************************)
C12_RpcBodyContract ==
    \A r \in DOMAIN reqs :
        LET req == reqs[r]
        IN  (IsRpcCall(req) /\ req.pc \notin {"idle", "await_json"}) =>
               IF ~NamesSomeProcedure(req.body)
               THEN /\ req.pc = "done"
                    /\ req.outcome = "response"
                    /\ IsBodyError(req.caught)
                    /\ req.response.status = 400
                    /\ req.response.body.f.error.f.code = Str("VALIDATION")
                    /\ req.log = <<>> \/ req.log[1].e = "onError"
               ELSE /\ req.caught # Undefined => ~IsBodyError(req.caught)
                    /\ req.procedureName = req.body.f.procedure.s
                    /\ (req.procedure # Undefined /\ "input" \notin DOMAIN req.body.f)
                          => /\ req.input = Undefined
                             /\ \A k \in 1..Len(req.log) :
                                   (req.log[k].e = "handler" /\ req.procedure._def.input = NoValue)
                                       => req.log[k].input = Undefined

C12_Witness ==
    \E r \in DOMAIN reqs :
        /\ IsRpcCall(reqs[r])
        /\ reqs[r].pc = "done"
        /\ reqs[r].body = Obj([procedure |-> Num(1)])
        /\ reqs[r].response.status = 400

\* the accepted case of C12: a call without `input` reaches the handler
C12_AcceptedWitness ==
    \E r \in DOMAIN reqs :
        /\ IsRpcCall(reqs[r])
        /\ reqs[r].body = Obj([procedure |-> Str("echo")])
        /\ reqs[r].pc = "done"
        /\ reqs[r].response.status = 200
        /\ "input" \notin DOMAIN reqs[r].response.body.f
        /\ "v" \in DOMAIN reqs[r].response.body.f
        /\ reqs[r].response.body.f.v = Num(2)

\* builder c was returned by a call on builder b
ReturnedBy(h, b, c) ==
    /\ Len(h[c].calls) = Len(h[b].calls) + 1
    /\ SubSeq(h[c].calls, 1, Len(h[b].calls)) = h[b].calls

(***************************************************************************)
(* C13 (SpecBuilder).  input(s) and use(m) return a new builder, distinct  *)
(* from the receiver, and leave every existing builder as it was: a        *)
(* procedure built from a builder b after calls on a builder derived from  *)
(* b has the schema and the middleware it had before; two branches from    *)
(* one builder share no step.                                              *)
(***************************************************************************)
C13_BuilderIsImmutable ==
    [][/\ Len(heap') \in {Len(heap), Len(heap) + 1}
       /\ \A b \in 1..Len(heap) :
             /\ heap'[b] = heap[b]
             /\ \A handlerFn \in Handlers :
                   builder_handler(heap', b, handlerFn) = builder_handler(heap, b, handlerFn)
       /\ Len(heap') = Len(heap) + 1 =>
             \E b \in 1..Len(heap) :
                 /\ b # Len(heap')
                 /\ ReturnedBy(heap', b, Len(heap'))
                 /\ \A k \in DOMAIN heap[b]._def :
                       k \in DOMAIN heap'[Len(heap')]._def]_vars

\* two branches from one builder, and a procedure built from the base after
\* both branches were made
C13_Witness ==
    \E b, c, d \in 1..Len(heap) :
        /\ c # d
        /\ ReturnedBy(heap, b, c)
        /\ ReturnedBy(heap, b, d)
        /\ heap[c].calls[Len(heap[c].calls)] = [op |-> "use", arg |-> "m1"]
        /\ heap[d].calls[Len(heap[d].calls)] = [op |-> "use", arg |-> "m2"]
        /\ heap[b].calls # <<>>
        /\ built # Undefined
        /\ built.calls = heap[b].calls
        /\ Prop(built._def, "middleware") = Prop(heap[b]._def, "middleware")

\* the argument of the last input() call of a chain; NoValue when there is none
RECURSIVE InputOf(_)
InputOf(calls) ==
    IF calls = <<>> THEN NoValue
    ELSE IF calls[Len(calls)].op = "input" THEN calls[Len(calls)].arg
         ELSE InputOf(SubSeq(calls, 1, Len(calls) - 1))

(***************************************************************************)
(* C14 (SpecBuilder).  handler(fn) returns a Procedure whose _def holds    *)
(* the builder's current input validator (undefined when input() was never *)
(* called), the accumulated middleware sequence as _def.middlewares (the   *)
(* empty array when use() was never called), and fn as _def.handler.       *)
(***************************************************************************)
C14_HandlerCapturesBuilder ==
    built # Undefined =>
        /\ built._def.input = InputOf(built.calls)
        /\ built._def.handler \in Handlers
        /\ Prop(built._def, "middlewares") # NoValue
        /\ Prop(built._def, "middlewares") = UsesOf(built.calls)

(***************************************************************************)
(* C15 (SpecAnyCallback).  When the request function returns an error      *)
(* response and callbacks.onError is configured, onError was called        *)
(* exactly once, as the last step before the response, with the normalized *)
(* GremlinError whose code and message are in that response; onError is    *)
(* never called for a request that ends in a 200.                          *)
(***************************************************************************)
C15_OnErrorOncePerErrorResponse ==
    \A r \in DOMAIN reqs :
        LET req == reqs[r]
            calls == EventsOf(req, {"onError"})
        IN  (req.pc = "done" /\ req.outcome = "response" /\ config.onError # "absent") =>
               IF req.response.status = 200
               THEN calls = <<>>
               ELSE /\ Len(calls) = 1
                    /\ req.log[Len(req.log)] = calls[1]
                    /\ calls[1].error = normalizeError(req.caught)
                    /\ IsGremlinError(calls[1].error)
                    /\ req.response.body =
                          ErrorBody(calls[1].error.code, calls[1].error.message)

C15_Witness ==
    \E r \in DOMAIN reqs :
        /\ reqs[r].pc = "done"
        /\ reqs[r].outcome = "response"
        /\ config.onError = "returns"
        /\ reqs[r].caught = ForeignError("Error")
        /\ reqs[r].response.status = 500
        /\ EventsOf(reqs[r], {"handler"}) # <<>>
        /\ Len(EventsOf(reqs[r], {"onError"})) = 1

\* the response of the catch block for a caught value, callbacks.onError aside
ErrorResponseFor(error) ==
    LET gremlinError == normalizeError(error)
    IN  jsonResponse(ErrorBody(gremlinError.code, gremlinError.message),
                     ERROR_STATUS_MAP[gremlinError.code])

(***************************************************************************)
(* C16 (SpecAnyCallback).  callbacks.onError does not affect the response: *)
(* a failing request is answered with the same status and body whether     *)
(* the callback is absent or present and whether it returns or throws.     *)
(***************************************************************************)
C16_OnErrorLeavesResponseAlone ==
    \A r \in DOMAIN reqs :
        (reqs[r].pc = "done" /\ reqs[r].caught # Undefined) =>
            /\ reqs[r].outcome = "response"
            /\ reqs[r].response = ErrorResponseFor(reqs[r].caught)

\* the same, for callbacks that return
C16_ReturningCallback ==
    \A r \in DOMAIN reqs :
        (reqs[r].pc = "done" /\ reqs[r].caught # Undefined /\ config.onError # "throws") =>
            /\ reqs[r].outcome = "response"
            /\ reqs[r].response = ErrorResponseFor(reqs[r].caught)

\* the number of calls of middleware i / of the handler in a request
TimesCalled(req, kind, i) ==
    Cardinality({k \in 1..Len(req.log) :
                    /\ req.log[k].e = kind
                    /\ kind = "middleware" => req.log[k].i = i})

(***************************************************************************)
(* C17 (Spec).  executeProcedure is a pure propagation path: a value e     *)
(* that a middleware or the handler throws, or that its promise rejects    *)
(* with, is the value executeProcedure rejects with, identical, neither    *)
(* wrapped nor replaced, and the step is not tried again.  (The one rewrap *)
(* of the executor is the schema rejection turned into VALIDATION.)        *)
(***************************************************************************)
C17_ErrorsPropagateUnchanged ==
    [][\A r \in DOMAIN reqs :
          LET req == reqs[r]
              after == reqs'[r]
              told == IF config.onError = "absent" THEN after.log
                      ELSE SubSeq(after.log, 1, Len(after.log) - 1)
          IN  /\ (/\ req.pc \in {"await_middleware", "await_handler"}
                  /\ req.pending.t = "promise"
                  /\ req.pending.settle = "reject"
                  /\ after # req)
                 => /\ after.pc = "done"
                    /\ after.caught = req.pending.value
              /\ (/\ req.pc = "loop"
                  /\ after # req
                  /\ told # <<>>
                  /\ told[Len(told)].e = "threw")
                 => /\ after.pc = "done"
                    /\ after.caught = told[Len(told)].error
              /\ (req.pc \in {"loop", "await_middleware", "await_handler"} /\ after.pc = "done")
                 => /\ TimesCalled(after, "handler", 0) <= 1
                    /\ \A i \in 1..MaxUses : TimesCalled(after, "middleware", i) <= 1]_vars

C17_Witness ==
    \E r \in DOMAIN reqs :
        /\ reqs[r].pc = "done"
        /\ reqs[r].caught = GremlinError("FORBIDDEN", [text |-> "No access."], Undefined)
        /\ \E k \in 1..Len(reqs[r].log) :
              /\ reqs[r].log[k].e = "resolved"
              /\ reqs[r].log[k].i = 2
              /\ ~reqs[r].log[k].settled.ok
        /\ reqs[r].response.status = 403

\* the resolved results of middleware that are no context fragment at all
NotObjects == {Num(7), Str("ctx"), Bool(TRUE), Fn("next")}

(***************************************************************************)
(* C18 (Spec).  A middleware whose resolved result is undefined or null    *)
(* leaves the accumulated context as it is and the call goes on; one whose *)
(* resolved result is a non-object value (number, string, boolean,         *)
(* function) makes executeProcedure reject with GremlinError INTERNAL.      *)
(***************************************************************************)
C18_NonObjectFragmentIsInternal ==
    [][\A r \in DOMAIN reqs :
          LET req == reqs[r]
              after == reqs'[r]
              resolved == resolveResult(effectRuntimePromise', req.pending)
          IN  (req.pc = "await_middleware" /\ after # req /\ resolved.ok) =>
                 /\ resolved.value \in {Undefined, Null} =>
                       /\ after.pc = "loop"
                       /\ after.mergedContext = req.mergedContext
                       /\ after.i = req.i + 1
                       /\ after.caught = Undefined
                 /\ resolved.value \in NotObjects =>
                       /\ after.pc = "done"
                       /\ IsGremlinError(after.caught)
                       /\ after.caught.code = "INTERNAL"
                       /\ after.caught.cause = resolved.value
                       /\ EventsOf(after, {"handler"}) = <<>>
                 /\ resolved.value \in {Undefined, Null} \cup NotObjects
                       \/ resolved.value.t = "object"]_vars

\* the first middleware resolved to null, the second to a string
C18_Witness ==
    \E r \in DOMAIN reqs :
        LET resolved == EventsOf(reqs[r], {"resolved"})
        IN  /\ reqs[r].pc = "done"
            /\ Len(resolved) = 2
            /\ resolved[1].settled = [ok |-> TRUE, value |-> Null]
            /\ resolved[2].settled = [ok |-> TRUE, value |-> Str("ctx")]
            /\ reqs[r].mergedContext = SeedContext(reqs[r], r)
            /\ reqs[r].caught.t = "GremlinError"
            /\ reqs[r].caught.code = "INTERNAL"
            /\ reqs[r].response.status = 500

\* the `input` of every middleware call and handler call of a request
InputsPassed(req) ==
    {req.log[k].input : k \in {j \in 1..Len(req.log) :
                                  req.log[j].e \in {"middleware", "handler"}}}

\* the call went through executeProcedure and no middleware step failed
RanToHandler(req) ==
    /\ req.pc = "done"
    /\ Executing(req)
    /\ HasDef(req)
    /\ "middlewares" \in DOMAIN req.procedure._def
    /\ ~MiddlewareFailed(req)

IsValidationFailure(error) ==
    /\ IsGremlinError(error)
    /\ error.code = "VALIDATION"
    /\ error.message = [text |-> "Input validation failed."]

C20_ObjectWitness ==
    \E r \in DOMAIN reqs :
        /\ reqs[r].pc = "done"
        /\ HasDef(reqs[r])
        /\ reqs[r].procedure._def.input = NoValue
        /\ EventsOf(reqs[r], {"handler"}) # <<>>
        /\ InputsPassed(reqs[r]) = {Obj([value |-> Num(MaxValue), extra |-> Str("x")])}
        /\ reqs[r].response.status = 200

\* the value a result stands for: itself, or what its promise / Effect
\* succeeds with
ValueOf(result) ==
    IF result.t \in {"promise", "effect"} THEN result.value ELSE result

Succeeds(result) == result.t \in {"promise", "effect"} => result.settle = "resolve"

C21_PromiseWitness ==
    \E r \in DOMAIN reqs :
        /\ reqs[r].pc = "done"
        /\ reqs[r].response.status = 200
        /\ \E k \in 1..Len(reqs[r].log) :
              /\ reqs[r].log[k].e = "returned"
              /\ reqs[r].log[k].pending.t = "promise"
              /\ reqs[r].response.body = ToJSON(reqs[r].log[k].pending.value)

\* the request was GET <basePath>/session
IsSessionCall(req) ==
    /\ req.method = "GET"
    /\ Under(req.pathname)
    /\ RelativeOf(req.pathname) = SESSION_PATH

(***************************************************************************)
(* C22 (Spec).  GET <basePath>/session calls auth.getSession exactly once  *)
(* and answers 200 with the session that call returned as JSON body; the   *)
(* router is not consulted and no procedure is executed.                   *)
(***************************************************************************)
C22_SessionEndpoint ==
    \A r \in DOMAIN reqs :
        LET req == reqs[r]
        IN  (req.pc # "idle" /\ IsSessionCall(req)) =>
               /\ Len(EventsOf(req, {"getSession"})) = 1
               /\ req.log[1].e = "getSession"
               /\ req.procedure = Undefined
               /\ req.procedureName = ""
               /\ EventsOf(req, {"validate", "middleware", "handler"}) = <<>>
               /\ (req.pc = "done" /\ req.caught = Undefined) =>
                     /\ req.session \in {UserSession, AnonSession}
                     /\ req.outcome = "response"
                     /\ req.response.status = 200
                     /\ req.response.body = req.session
               /\ (req.pc = "done" /\ req.caught # Undefined) =>
                     EventsOf(req, {"sessionRejected"}) # <<>>

C22_Witness ==
    \E r \in DOMAIN reqs :
        /\ IsSessionCall(reqs[r])
        /\ reqs[r].pc = "done"
        /\ reqs[r].pathname = DEFAULT_BASE_PATH \o SESSION_PATH
        /\ router # <<>>
        /\ reqs[r].response.status = 200
        /\ reqs[r].response.body = UserSession

\* '/api/gremlin' as configurations may write it, or leave it out
DefaultMounts ==
    {NoBasePath, DEFAULT_BASE_PATH, DEFAULT_BASE_PATH \o <<"/">>,
     DEFAULT_BASE_PATH \o <<"/", "/">>}

\* where a request goes in a handler mounted at bp (written without
\* trailing slash)
RouteAt(bp, method, pathname) ==
    LET path == IF Len(pathname) > 1 THEN StripTrailingSlashes(pathname) ELSE pathname
    IN  IF path # bp /\ ~StartsWith(path, bp \o <<"/">>) THEN "outside"
        ELSE IF method = "GET" /\ path = bp \o SESSION_PATH THEN "session"
        ELSE IF method = "POST" /\ path = bp \o RPC_PATH THEN "rpc"
        ELSE "other"

\* where the request went
RouteTaken(req) ==
    IF req.pc = "await_json" \/ IsBodyError(req.caught) \/ req.procedureName # "" THEN "rpc"
    ELSE IF EventsOf(req, {"getSession"}) # <<>> THEN "session"
    ELSE IF req.caught.message.text = "Route not found: " /\ "method" \in DOMAIN req.caught.message
    THEN "other"
    ELSE "outside"

(***************************************************************************)
(* C25 (SpecRouting).  basePath is '/api/gremlin' when omitted, and        *)
(* trailing slashes of the configured value are stripped: a handler        *)
(* configured with '/api/gremlin/' or '/api/gremlin//' routes every        *)
(* request as one configured with '/api/gremlin'.                          *)
(***************************************************************************)
C25_BasePathNormalized ==
    config.basePath \in DefaultMounts =>
        /\ basePath = DEFAULT_BASE_PATH
        /\ \A r \in DOMAIN reqs :
              reqs[r].pc # "idle" =>
                  RouteTaken(reqs[r]) =
                      RouteAt(DEFAULT_BASE_PATH, reqs[r].method, reqs[r].pathname)

C25_Witness ==
    \E r \in DOMAIN reqs :
        /\ config.basePath = DEFAULT_BASE_PATH \o <<"/", "/">>
        /\ reqs[r].method = "POST"
        /\ reqs[r].pathname = DEFAULT_BASE_PATH \o RPC_PATH
        /\ reqs[r].pc = "done"
        /\ reqs[r].response.status = 200

\* the middleware a chain of calls has registered last; NoValue when none
LastUse(calls) ==
    IF UsesOf(calls) = <<>> THEN NoValue ELSE UsesOf(calls)[Len(UsesOf(calls))]

\* the number of input() calls of a chain
InputCalls(calls) == Cardinality({k \in 1..Len(calls) : calls[k].op = "input"})

(***************************************************************************)
(* C26 (SpecBuilder).  When input() is called more than once on a chain,   *)
(* the last call wins: the built Procedure's validator is the schema of    *)
(* the most recent input() call, and the use() calls between and around    *)
(* the input() calls are all kept, in order, as its middleware sequence.   *)
(***************************************************************************)
C26_LastInputWinsUsesKept ==
    (built # Undefined /\ InputCalls(built.calls) >= 2) =>
        /\ built._def.input = InputOf(built.calls)
        /\ "middlewares" \in DOMAIN built._def
        /\ built._def.middlewares = UsesOf(built.calls)

\* what holds of repeated input() calls: the last schema wins, and input()
\* leaves the builder's middleware slot as the last use() call set it
C26_LastInputWins ==
    /\ \A b \in 1..Len(heap) :
          /\ Prop(heap[b]._def, "input") = InputOf(heap[b].calls)
          /\ Prop(heap[b]._def, "middleware") = LastUse(heap[b].calls)
    /\ built # Undefined =>
          /\ built._def.input = InputOf(built.calls)
          /\ built._def.middleware = LastUse(built.calls)

\* input(valueSchema).use(m1).input(stringSchema).handler(h)
C26_Reached ==
    /\ built # Undefined
    /\ built.calls = <<[op |-> "input", arg |-> "valueSchema"],
                       [op |-> "use", arg |-> "m1"],
                       [op |-> "input", arg |-> "stringSchema"]>>
    /\ built._def.input = "stringSchema"
    /\ built._def.middleware = "m1"

C29_RpcStepOrder ==
    \A r \in DOMAIN reqs :
        LET req == reqs[r]
        IN  (IsRpcCall(req) /\ req.pc \notin {"idle", "await_json"}) =>
               IF \/ ~NamesSomeProcedure(req.body)
                  \/ req.body.f.procedure.s \notin DOMAIN router
               THEN EventsOf(req, {"getSession", "validate", "middleware", "handler"}) = <<>>
               ELSE /\ Len(EventsOf(req, {"getSession"})) = 1
                    /\ req.log[1].e = "getSession"
                    /\ req.procedure = router[req.body.f.procedure.s]
                    /\ req.pc \in {"loop", "await_middleware", "await_handler"} =>
                          req.session \in {UserSession, AnonSession}
                    /\ (req.pc = "loop" /\ req.i = 1) =>
                          /\ DOMAIN req.mergedContext = {"request", "session", "headers"}
                          /\ req.mergedContext.session = req.session

\* what holds of the order: the same, for names no object inherits
C29_OrderForOwnNames ==
    \A r \in DOMAIN reqs :
        LET req == reqs[r]
        IN  (/\ IsRpcCall(req)
             /\ req.pc \notin {"idle", "await_json"}
             /\ NamesSomeProcedure(req.body) => req.body.f.procedure.s \notin ObjectPrototypeKeys)
            => IF \/ ~NamesSomeProcedure(req.body)
                  \/ req.body.f.procedure.s \notin DOMAIN router
               THEN EventsOf(req, {"getSession", "validate", "middleware", "handler"}) = <<>>
               ELSE /\ Len(EventsOf(req, {"getSession"})) = 1
                    /\ req.log[1].e = "getSession"
                    /\ req.procedure = router[req.body.f.procedure.s]
                    /\ req.pc \in {"loop", "await_middleware", "await_handler"} =>
                          req.session \in {UserSession, AnonSession}
                    /\ (req.pc = "loop" /\ req.i = 1) =>
                          /\ DOMAIN req.mergedContext = {"request", "session", "headers"}
                          /\ req.mergedContext.session = req.session

\* event k of the log is a failure of validation or of a middleware step
IsFailure(req, k) ==
    \/ req.log[k].e = "validate" /\ ~req.log[k].success
    \/ /\ req.log[k].e = "threw"
       /\ req.log[k - 1].e = "middleware"
    \/ /\ req.log[k].e = "resolved"
       /\ \/ ~req.log[k].settled.ok
          \/ req.log[k].settled.value.t \notin {"object", "undefined", "null"}

\* middleware i was invoked and its result resolved to a fragment or nothing
ResolvedWell(req, i) ==
    \E k \in 2..Len(req.log) :
        /\ req.log[k].e = "resolved"
        /\ req.log[k].i = i
        /\ req.log[k - 1].e = "middleware"
        /\ req.log[k - 1].i = i
        /\ req.log[k].settled.ok
        /\ req.log[k].settled.value.t \in {"object", "undefined", "null"}

\* in the log of a request nothing is invoked after a failure, and the
\* handler comes after a good resolution of every middleware
LogShortCircuits(req) ==
    /\ \A k \in 1..Len(req.log) :
          IsFailure(req, k) =>
              /\ \A j \in (k + 1)..Len(req.log) :
                    req.log[j].e \notin {"middleware", "handler", "resolved"}
              /\ req.pc = "done"
              /\ req.caught # Undefined
    /\ \A k \in 1..Len(req.log) :
          req.log[k].e = "handler" =>
              /\ \A i \in 1..Len(req.procedure._def.middlewares) : ResolvedWell(req, i)
              /\ \A j \in 1..(k - 1) : ~IsFailure(req, j)
              /\ \A j \in (k + 1)..Len(req.log) : req.log[j].e # "middleware"

(***************************************************************************)
(* C30 (Spec).  executeProcedure stops at the first failure: when input    *)
(* validation fails no middleware runs; when middleware i throws, rejects  *)
(* or resolves to a non-object value, no later middleware and not the      *)
(* handler is invoked in that call; the handler is invoked only after      *)
(* every middleware has resolved successfully.                             *)
(***************************************************************************)
C30_ShortCircuit ==
    [][\A r \in DOMAIN reqs :
          LET req == reqs[r]
              after == reqs'[r]
          IN  /\ LogShortCircuits(after)
              /\ (/\ req.pc = "await_middleware"
                  /\ after # req
                  /\ \/ ~Succeeds(req.pending)
                     \/ ValueOf(req.pending).t \notin {"object", "undefined", "null"})
                 => /\ after.pc = "done"
                    /\ after.caught # Undefined
                    /\ after.i = req.i
              /\ (req.pc = "execute" /\ after.pc = "loop")
                 => validateInput(req.procedure._def, req.input).ok
              /\ (req.pc = "loop" /\ after.pc = "await_handler")
                 => /\ req.i = Len(req.procedure._def.middlewares) + 1
                    /\ req.caught = Undefined]_vars

\* the first middleware's promise rejected: the second and the handler never ran
C30_Witness ==
    \E r \in DOMAIN reqs :
        /\ reqs[r].pc = "done"
        /\ reqs[r].procedure # Undefined
        /\ HasDef(reqs[r])
        /\ "middlewares" \in DOMAIN reqs[r].procedure._def
        /\ reqs[r].procedure._def.middlewares = <<"m1", "m2">>
        /\ Len(EventsOf(reqs[r], {"middleware"})) = 1
        /\ \E k \in 1..Len(reqs[r].log) :
              /\ reqs[r].log[k].e = "resolved"
              /\ ~reqs[r].log[k].settled.ok
        /\ EventsOf(reqs[r], {"handler"}) = <<>>
        /\ reqs[r].response.status \in {403, 500}

\* the positions of the events of one kind and middleware in a call
PositionsOf(call, kind, who) ==
    {k \in 1..Len(call.order) : call.order[k].e = kind /\ call.order[k].who = who}

(***************************************************************************)
(* C27 (SpecCompose).  composeMiddleware(first, second) runs the two       *)
(* middleware one after the other: second is not invoked before what       *)
(* first returned has settled (start-1, end-1, start-2, end-2), it is not  *)
(* invoked at all when first fails, and both get the same opts.            *)
(***************************************************************************)
C27_ComposeIsSequential ==
    /\ \A k \in 1..Len(composed.order) :
          composed.order[k].e = "start" => composed.order[k].opts = composed.opts
    /\ Cardinality(PositionsOf(composed, "start", 1)) <= 1
    /\ Cardinality(PositionsOf(composed, "start", 2)) <= 1
    /\ \A k \in PositionsOf(composed, "start", 2) :
          /\ k = 3
          /\ composed.order[1].e = "start" /\ composed.order[1].who = 1
          /\ composed.order[2] = [e |-> "settled", who |-> 1, ok |-> TRUE]
    /\ (composed.pc = "done" /\ composed.outcome = "resolved") =>
          /\ Len(composed.order) = 4
          /\ composed.order[4] = [e |-> "settled", who |-> 2, ok |-> TRUE]
          /\ PositionsOf(composed, "start", 2) = {3}

\* two promises and a non-empty input: 1 started, 1 settled, 2 started, 2 settled
C27_Witness ==
    /\ composed.pc = "done"
    /\ composed.outcome = "resolved"
    /\ composed.opts = Str("test-input")
    /\ composed.order = <<[e |-> "start", who |-> 1, opts |-> Str("test-input")],
                          [e |-> "settled", who |-> 1, ok |-> TRUE],
                          [e |-> "start", who |-> 2, opts |-> Str("test-input")],
                          [e |-> "settled", who |-> 2, ok |-> TRUE]>>
    /\ composed.result = Obj([a |-> Num(1), b |-> Num(2)])


\* the seed of invocation r, from its own request and its own session
OwnSeed(req, r) ==
    [request |-> [t |-> "Request", method |-> req.method, pathname |-> req.pathname],
     session |-> req.session,
     headers |-> [t |-> "Headers", of |-> r]]

\* the values the invocation's own middleware resolved to, in order
OwnFragments(req) ==
    LET evs == SelectSeq(req.log, LAMBDA ev : ev.e = "resolved" /\ ev.settled.ok)
    IN  [k \in 1..Len(evs) |-> evs[k].settled.value]

OwnContext(req, r) == ExpectedContext(OwnSeed(req, r), OwnFragments(req))

\* what one step may do to the invocations: the context of each holds its
\* own seed and fragments, and each is answered from its own record
Isolated ==
    /\ \A r, s \in DOMAIN reqs :
          (r # s /\ reqs'[r] # reqs[r]) => reqs'[s] = reqs[s]
    /\ <<config, basePath, router>>' = <<config, basePath, router>>
    /\ \A r \in DOMAIN reqs :
          LET after == reqs'[r]
              handled == EventsOf(after, {"handler"})
          IN  /\ after.pc \in {"loop", "await_middleware", "await_handler"}
                 => after.mergedContext = OwnContext(after, r)
              /\ \A k \in 1..Len(handled) :
                    /\ handled[k].ctx = OwnContext(after, r)
                    /\ handled[k].input = after.input
              /\ (after.pc = "done" /\ after.caught # Undefined)
                 => after.response = ErrorResponseFor(after.caught)
              /\ (after.pc = "done" /\ after.caught = Undefined /\ IsSessionCall(after))
                 => after.response = jsonResponse(after.session, 200)
              /\ (after.pc = "done" /\ after.caught = Undefined /\ ~IsSessionCall(after))
                 => /\ Len(handled) = 1
                    /\ after.response =
                          jsonResponse(EchoOf(after.input, OwnContext(after, r)), 200)

PageInvariant(page) ==
    /\ page.hasMore => (page.cursor # Undefined /\ page.cursor.s # <<>>)
    /\ ~page.hasMore => page.cursor = Undefined

(***************************************************************************)
(* C24 (SpecAdapter).  Every page returned by listContentResources of the  *)
(* Fake adapter and of the cursor-based Drizzle adapter, after any         *)
(* sequence of creates and soft deletes and for any limit and cursor, has  *)
(* a defined, non-empty cursor exactly when hasMore is true.  It fails for *)
(* a limit between 0 and 1: the page is empty, hasMore is true and there   *)
(* is no cursor.                                                           *)
(***************************************************************************)
C24_CursorIffHasMore ==
    adapter.page # Undefined => PageInvariant(adapter.page)

\* what holds: for every limit that is absent, not positive, or at least 1,
\* the page invariant holds, and a handed-out cursor names the last item
C24_HoldsFromOneUp ==
    (adapter.page # Undefined /\ (adapter.limit = Undefined \/ adapter.limit.halves \notin {1}))
    => /\ PageInvariant(adapter.page)
       /\ adapter.page.hasMore =>
             /\ adapter.page.items # <<>>
             /\ adapter.kind = "drizzle" =>
                   decodeContentResourceCursor(adapter.page.cursor).codes
                      = CodesOf(adapter.page.items[Len(adapter.page.items)])

\* a page with more to come and a cursor, reached through a cursor
C24_Reached ==
    /\ adapter.page # Undefined
    /\ adapter.page.hasMore
    /\ adapter.cursor # Undefined
    /\ Len(adapter.page.items) = 1
    /\ \E id \in DOMAIN adapter.resources : adapter.resources[id].deleted

====
